---- MODULE Spec2Model ----
(***************************************************************************)
(* A model of the Ilinden HLS proxy: the sharded LRU+TTL memory cache      *)
(* (internal/cache/memory.go) and the playlist parser, rewriter and        *)
(* serializer (pkg/hls, internal/playlist).                                *)
(***************************************************************************)
EXTENDS Integers, Sequences, FiniteSets, TLC

(***************************************************************************)
(* Bounds of the model.                                                    *)
(***************************************************************************)
MaxKey == 2
MaxValue == 2
MaxTTL == 2
MaxElems == 3
MaxPending == 1
NumThreads == 2
NumCallers == 1
MaxCapOpt == 1
MaxShardOpt == 2
MaxLines == 4
MaxRequests == 2
MaxReqLines == 3
MaxNextLines == 2
MaxTicks == 2
MaxServed == 3
MaxParseLines == 5

\* memory.go:66, the per-shard capacity used when MaxSize / shards is zero
DefaultItemsPerShard == 100
\* memory.go:52 and memory.go:56, the defaults of NewMemoryWithOptions
DefaultMaxSize == 10000
DefaultShardSize == 16

Nil == 0

(***************************************************************************)
(* Bit operations on naturals, as Go computes them on uint32.              *)
(***************************************************************************)
RECURSIVE BitOr(_, _)
BitOr(a, b) ==
    IF a = 0 THEN b
    ELSE IF b = 0 THEN a
    ELSE (IF (a % 2 = 1) \/ (b % 2 = 1) THEN 1 ELSE 0) + 2 * BitOr(a \div 2, b \div 2)

RECURSIVE BitAnd(_, _)
BitAnd(a, b) ==
    IF a = 0 \/ b = 0 THEN 0
    ELSE (IF (a % 2 = 1) /\ (b % 2 = 1) THEN 1 ELSE 0) + 2 * BitAnd(a \div 2, b \div 2)

RECURSIVE BitXor(_, _)
BitXor(a, b) ==
    IF a = 0 THEN b
    ELSE IF b = 0 THEN a
    ELSE (IF (a % 2) # (b % 2) THEN 1 ELSE 0) + 2 * BitXor(a \div 2, b \div 2)

RECURSIVE Pow2(_)
Pow2(n) == IF n = 0 THEN 1 ELSE 2 * Pow2(n - 1)

ShiftRight(x, n) == x \div Pow2(n)

(***************************************************************************)
(* nextPowerOfTwo (memory.go:274): the or-shift cascade on a uint32.       *)
(***************************************************************************)
nextPowerOfTwo(x) ==
    IF x = 0 THEN 1
    ELSE LET x0 == x - 1
             x1 == BitOr(x0, ShiftRight(x0, 1))
             x2 == BitOr(x1, ShiftRight(x1, 2))
             x3 == BitOr(x2, ShiftRight(x2, 4))
             x4 == BitOr(x3, ShiftRight(x3, 8))
             x5 == BitOr(x4, ShiftRight(x4, 16))
         IN  x5 + 1

(***************************************************************************)
(* fnv32 (memory.go:290).  A uint32 is kept as <<high 16 bits, low 16      *)
(* bits>> so that the multiplication wraps at 2^32 exactly.                *)
(***************************************************************************)
Half == Pow2(16)
\* 2166136261 = 0x811C9DC5
OffsetBasis == <<33052, 40389>>
\* 16777619 = 0x01000193
Prime32 == <<256, 403>>

Mul32(a, b) ==
    LET lofull == a[2] * b[2]
        lo == lofull % Half
        carry == lofull \div Half
        hi == (carry + a[1] * b[2] + a[2] * b[1]) % Half
    IN  <<hi, lo>>

Xor32(a, byte) == <<a[1], BitXor(a[2], byte)>>

RECURSIVE fnv32FromXorFirst(_, _, _)
fnv32FromXorFirst(hash, key, i) ==
    IF i > Len(key) THEN hash
    ELSE fnv32FromXorFirst(Mul32(Xor32(hash, key[i]), Prime32), key, i + 1)

RECURSIVE fnv32From(_, _, _)
fnv32From(hash, key, i) ==
    IF i > Len(key) THEN hash
    ELSE fnv32From(Xor32(Mul32(hash, Prime32), key[i]), key, i + 1)

fnv32(key) == fnv32From(OffsetBasis, key, 1)

\* hash & c.shardMask, for a mask below 2^16
ShardIndex(key, mask) == BitAnd(fnv32(key)[2], mask)


(***************************************************************************)
(* The memory cache (internal/cache/memory.go).                            *)
(*                                                                         *)
(* Time is kept relative to time.Now(): an item's expiry field holds       *)
(* expiry - now, which Tick lowers by one; time.Now().After(item.expiry)   *)
(* is expiry - now < 0.  Elements that no pointer reaches any more are     *)
(* returned to the allocator, as the garbage collector does.               *)
(***************************************************************************)
VARIABLES
    opts,        \* MemoryOptions handed to NewMemoryWithOptions
    shardMask,   \* MemoryCache.shardMask
    cache,       \* the shards: maps, recency lists, elements, counts
    pc,          \* per goroutine: "idle", "getMove" (Get between its two
                 \* critical sections), "clear" (Clear between two shards)
    tkey,        \* Get: key
    telem,       \* Get: element found under the read lock
    tvalue,      \* Get: item.value of the item found under the read lock
    tclear,      \* Clear: index of the next shard
    pendingDel,  \* go c.Delete(key) goroutines not yet run, per key
    hist,        \* history: per key, the last completed Set and what
                 \* happened to the entry since
    defMore,     \* history: defMore[a][b] iff an access of a started after
                 \* every access of b had completed
    op           \* history: the Get whose lookup was the last step

coreVars == <<opts, shardMask, cache, pc, tkey, telem, tvalue, tclear, pendingDel>>
cacheVars == <<coreVars, hist, defMore, op>>

Keys == {<<96 + i>> : i \in 1..MaxKey}
Values == 1..MaxValue
TTLs == 0..MaxTTL
Threads == 1..NumThreads
Callers == 1..NumCallers
LRUValues == {1}
LRUTTLs == {0}
Elems == 1..MaxElems
MaxSizeOpts == 1..MaxCapOpt
ShardSizeOpts == 1..MaxShardOpt
MaxShards == nextPowerOfTwo(MaxShardOpt)
Root(s) == 0 - (s + 1)
Roots == {Root(s) : s \in 0..(MaxShards - 1)}
Nodes == Roots \cup Elems

\* a time already passed
Past == 0 - 1

NoItem == [key |-> <<>>, value |-> 0, expiry |-> 0, hasExpiry |-> FALSE]

\* the number of shards
NumShards == shardMask + 1
Shards == 0..(NumShards - 1)

(***************************************************************************)
(* NewMemoryWithOptions (memory.go:49): the defaults, the shard count and  *)
(* the per-shard capacity.                                                 *)
(***************************************************************************)
OptMaxSize(o) == IF o.MaxSize <= 0 THEN DefaultMaxSize ELSE o.MaxSize
OptShardSize(o) == IF o.ShardSize <= 0 THEN DefaultShardSize ELSE o.ShardSize
NewShardSize(o) == nextPowerOfTwo(OptShardSize(o))
NewShardMask(o) == NewShardSize(o) - 1
ItemsPerShard(o) ==
    LET itemsPerShard == OptMaxSize(o) \div NewShardSize(o)
    IN  IF itemsPerShard <= 0 THEN DefaultItemsPerShard ELSE itemsPerShard

\* memoryShard.maxSize, the same for every shard
maxSize == ItemsPerShard(opts)

NewCache ==
    [items |-> [k \in Keys |-> Nil],
     nxt   |-> [n \in Nodes |-> IF n \in Roots THEN n ELSE Nil],
     prv   |-> [n \in Nodes |-> IF n \in Roots THEN n ELSE Nil],
     inl   |-> [e \in Elems |-> FALSE],
     val   |-> [e \in Elems |-> NoItem],
     len   |-> [s \in 0..(MaxShards - 1) |-> 0],
     count |-> [s \in 0..(MaxShards - 1) |-> 0]]

\* getShard (memory.go:209)
getShard(key) == ShardIndex(key, shardMask)

(***************************************************************************)
(* container/list, as the Go standard library implements it: a ring        *)
(* through the root; an element keeps its pointers until it is removed.    *)
(***************************************************************************)
\* List.insert(e, at) with at = &l.root, reached from PushFront
ListPushFront(c, s, e, item) ==
    LET at == Root(s)
        p1 == [c.prv EXCEPT ![e] = at]
        n1 == [c.nxt EXCEPT ![e] = c.nxt[at]]
        n2 == [n1 EXCEPT ![p1[e]] = e]
        p2 == [p1 EXCEPT ![n2[e]] = e]
    IN  [c EXCEPT !.nxt = n2, !.prv = p2, !.inl[e] = TRUE, !.val[e] = item,
                  !.len[s] = @ + 1]

\* List.Remove(e): nothing when e.list != l
ListRemove(c, s, e) ==
    IF ~c.inl[e] THEN c
    ELSE LET n1 == [c.nxt EXCEPT ![c.prv[e]] = c.nxt[e]]
             p1 == [c.prv EXCEPT ![n1[e]] = c.prv[e]]
             n2 == [n1 EXCEPT ![e] = Nil]
             p2 == [p1 EXCEPT ![e] = Nil]
         IN  [c EXCEPT !.nxt = n2, !.prv = p2, !.inl[e] = FALSE,
                       !.len[s] = @ - 1]

\* List.MoveToFront(e): nothing when e.list != l or e is the front
ListMoveToFront(c, s, e) ==
    IF ~c.inl[e] \/ c.nxt[Root(s)] = e THEN c
    ELSE LET at == Root(s)
             n1 == [c.nxt EXCEPT ![c.prv[e]] = c.nxt[e]]
             p1 == [c.prv EXCEPT ![n1[e]] = c.prv[e]]
             p2 == [p1 EXCEPT ![e] = at]
             n2 == [n1 EXCEPT ![e] = n1[at]]
             n3 == [n2 EXCEPT ![p2[e]] = e]
             p3 == [p2 EXCEPT ![n3[e]] = e]
         IN  [c EXCEPT !.nxt = n3, !.prv = p3]

\* List.Init(): the root points at itself; elements keep their pointers
ListInit(c, s) ==
    [c EXCEPT !.nxt[Root(s)] = Root(s), !.prv[Root(s)] = Root(s), !.len[s] = 0]

\* List.Back(): nil when len is 0
ListBack(c, s) == IF c.len[s] = 0 THEN Nil ELSE c.prv[Root(s)]

\* Element.Prev(): nil at the root or when the element is in no list
ElemPrev(c, s, e) ==
    IF c.inl[e] /\ c.prv[e] # Root(s) THEN c.prv[e] ELSE Nil

(***************************************************************************)
(* The allocator and the garbage collector.                                *)
(***************************************************************************)
RECURSIVE Closure(_, _)
Closure(c, S) ==
    LET T == (S \cup {c.nxt[n] : n \in S} \cup {c.prv[n] : n \in S}) \cap Nodes
    IN  IF T = S THEN S ELSE Closure(c, T)

\* the elements some pointer of the program still reaches
Reachable(c, held) ==
    Closure(c, Roots \cup ({c.items[k] : k \in Keys} \cap Elems) \cup (held \cap Elems))

Collect(c, held) ==
    LET live == Reachable(c, held)
    IN  [c EXCEPT
           !.nxt = [n \in Nodes |-> IF n \in live THEN c.nxt[n] ELSE Nil],
           !.prv = [n \in Nodes |-> IF n \in live THEN c.prv[n] ELSE Nil],
           !.inl = [e \in Elems |-> IF e \in live THEN c.inl[e] ELSE FALSE],
           !.val = [e \in Elems |-> IF e \in live THEN c.val[e] ELSE NoItem]]

Free(c, held) == Elems \ Reachable(c, held)

Held == {telem[t] : t \in Threads}
\* the elements goroutines other than t hold
HeldBut(t) == {telem[u] : u \in Threads \ {t}}

(***************************************************************************)
(* removeElement (memory.go:228) and evictIfNeeded (memory.go:216).        *)
(***************************************************************************)
\* removeElement without delete(s.items, item.key)
removeElementKeepsKey(c, s, e) ==
    LET c2 == ListRemove(c, s, e)
    IN  [c2 EXCEPT !.count[s] = @ - 1]

removeElement(c, s, e) ==
    LET item == c.val[e]
        c1 == IF item.key \in Keys THEN [c EXCEPT !.items[item.key] = Nil] ELSE c
        c2 == ListRemove(c1, s, e)
    IN  [c2 EXCEPT !.count[s] = @ - 1]

RECURSIVE evictIfNeeded(_, _)
evictIfNeeded(c, s) ==
    IF c.count[s] > maxSize
    THEN LET back == ListBack(c, s)
         IN  \* a root handed back by Back() has a nil Value: the type
             \* assertion in removeElement panics, the deferred Unlock runs
             \* and the shard stays as it is
             IF back = Nil \/ back \notin Elems THEN c
             ELSE evictIfNeeded(removeElement(c, s, back), s)
    ELSE c

\* the number of times evictIfNeeded adds one to stats.Evictions
RECURSIVE evictions(_, _)
evictions(c, s) ==
    IF c.count[s] > maxSize
    THEN LET back == ListBack(c, s)
         IN  IF back = Nil \/ back \notin Elems THEN 0
             ELSE 1 + evictions(removeElement(c, s, back), s)
    ELSE 0

(***************************************************************************)
(* The critical sections of Get, Set, Delete, Clear and cleanupExpired as  *)
(* functions of the cache.                                                 *)
(***************************************************************************)
\* item.hasExpiry && time.Now().After(item.expiry)
isExpired(item) == item.hasExpiry /\ item.expiry < 0

\* Set (memory.go:126)
NewItem(key, value, ttl) ==
    [key |-> key, value |-> value,
     expiry |-> IF ttl > 0 THEN ttl ELSE 0,
     hasExpiry |-> ttl > 0]

SetCache(c, key, value, ttl, e) ==
    LET s == getShard(key)
        item == NewItem(key, value, ttl)
        element == c.items[key]
    IN  IF element # Nil
        THEN ListMoveToFront([c EXCEPT !.val[element] = item], s, element)
        ELSE LET c1 == ListPushFront(c, s, e, item)
                 c2 == [c1 EXCEPT !.items[key] = e, !.count[s] = @ + 1]
             IN  evictIfNeeded(c2, s)

\* what a Set adds to stats.Evictions
SetEvictions(c, key, value, ttl, e) ==
    IF c.items[key] # Nil THEN 0
    ELSE LET s == getShard(key)
             c1 == ListPushFront(c, s, e, NewItem(key, value, ttl))
         IN  evictions([c1 EXCEPT !.items[key] = e, !.count[s] = @ + 1], s)

\* Delete (memory.go:161)
DeleteCache(c, key) ==
    LET element == c.items[key]
    IN  IF element # Nil THEN removeElement(c, getShard(key), element) ELSE c

\* Clear (memory.go:172), one shard
ClearShard(c, s) ==
    LET c1 == [c EXCEPT !.items = [k \in Keys |-> IF getShard(k) = s THEN Nil ELSE @[k]]]
        c2 == ListInit(c1, s)
    IN  [c2 EXCEPT !.count[s] = 0]

\* cleanupExpired (memory.go:248): the elements collected from the back
RECURSIVE expiredItems(_, _, _, _)
expiredItems(c, s, element, fuel) ==
    IF element = Nil \/ element \notin Elems \/ fuel = 0 THEN <<>>
    ELSE IF isExpired(c.val[element])
         THEN <<element>> \o expiredItems(c, s, ElemPrev(c, s, element), fuel - 1)
         ELSE <<>>

RECURSIVE removeAll(_, _, _, _)
removeAll(c, s, elems, i) ==
    IF i > Len(elems) THEN c
    ELSE removeAll(removeElement(c, s, elems[i]), s, elems, i + 1)

cleanupExpired(c, s) ==
    removeAll(c, s, expiredItems(c, s, ListBack(c, s), MaxElems + 1), 1)

\* time.Now() advances by one unit
Elapse(c) ==
    [c EXCEPT !.val = [e \in Elems |->
        IF c.val[e].hasExpiry /\ c.val[e].expiry > Past
        THEN [c.val[e] EXCEPT !.expiry = @ - 1]
        ELSE c.val[e]]]

\* Size (memory.go:186)
Size == LET RECURSIVE sum(_)
            sum(s) == IF s < 0 THEN 0 ELSE cache.count[s] + sum(s - 1)
        IN  sum(NumShards - 1)

(***************************************************************************)
(* The steps of the cache.                                                 *)
(***************************************************************************)
\* goroutines are interchangeable: a call runs on the first idle one
Idle(t) == pc[t] = "idle" /\ \A u \in Threads : u < t => pc[u] # "idle"

\* what the lookup of Get finds: a miss, or a hit with item.value
Lookup(key) ==
    LET element == cache.items[key]
    IN  IF element = Nil \/ isExpired(cache.val[element])
        THEN [hit |-> FALSE, value |-> 0]
        ELSE [hit |-> TRUE, value |-> cache.val[element].value]

\* Get (memory.go:91), from RLock to RUnlock
GetStep(t, key) ==
    /\ Idle(t)
    /\ LET element == cache.items[key]
           item == cache.val[element]
       IN  IF element = Nil
           THEN UNCHANGED <<pc, tkey, telem, tvalue, pendingDel>>
           ELSE IF isExpired(item)
           THEN /\ pendingDel[key] < MaxPending
                /\ pendingDel' = [pendingDel EXCEPT ![key] = @ + 1]
                /\ UNCHANGED <<pc, tkey, telem, tvalue>>
           ELSE /\ pc' = [pc EXCEPT ![t] = "getMove"]
                /\ tkey' = [tkey EXCEPT ![t] = key]
                /\ telem' = [telem EXCEPT ![t] = element]
                /\ tvalue' = [tvalue EXCEPT ![t] = item.value]
                /\ UNCHANGED pendingDel
    /\ UNCHANGED <<opts, shardMask, cache, tclear>>

\* Get, from Lock to the return of tvalue[t]
GetMoveStep(t) ==
    /\ pc[t] = "getMove"
    /\ cache' = Collect(ListMoveToFront(cache, getShard(tkey[t]), telem[t]),
                        HeldBut(t))
    /\ pc' = [pc EXCEPT ![t] = "idle"]
    /\ tkey' = [tkey EXCEPT ![t] = <<>>]
    /\ telem' = [telem EXCEPT ![t] = Nil]
    /\ tvalue' = [tvalue EXCEPT ![t] = 0]
    /\ UNCHANGED <<opts, shardMask, tclear, pendingDel>>

\* the element a Set of a new key allocates
NewElem == IF Free(cache, Held) = {} THEN Nil
           ELSE CHOOSE x \in Free(cache, Held) : \A y \in Free(cache, Held) : x <= y

SetStep(t, key, value, ttl) ==
    /\ Idle(t)
    /\ cache.items[key] = Nil => NewElem # Nil
    /\ cache' = Collect(SetCache(cache, key, value, ttl, NewElem), Held)
    /\ UNCHANGED <<opts, shardMask, pc, tkey, telem, tvalue, tclear, pendingDel>>

DeleteStep(t, key) ==
    /\ Idle(t)
    /\ cache' = Collect(DeleteCache(cache, key), Held)
    /\ UNCHANGED <<opts, shardMask, pc, tkey, telem, tvalue, tclear, pendingDel>>

\* the goroutine started by `go c.Delete(key)` in Get (memory.go:108)
DeleteExpiredStep(key) ==
    /\ pendingDel[key] > 0
    /\ pendingDel' = [pendingDel EXCEPT ![key] = @ - 1]
    /\ cache' = Collect(DeleteCache(cache, key), Held)
    /\ UNCHANGED <<opts, shardMask, pc, tkey, telem, tvalue, tclear>>

\* the shard a step of Clear works on
ClearAt(t) == IF pc[t] = "idle" THEN 0 ELSE tclear[t]

\* Clear (memory.go:172): one shard per step, each under its own lock
ClearStep(t) ==
    /\ Idle(t) \/ pc[t] = "clear"
    /\ cache' = Collect(ClearShard(cache, ClearAt(t)), Held)
    /\ IF ClearAt(t) + 1 < NumShards
       THEN /\ pc' = [pc EXCEPT ![t] = "clear"]
            /\ tclear' = [tclear EXCEPT ![t] = ClearAt(t) + 1]
       ELSE /\ pc' = [pc EXCEPT ![t] = "idle"]
            /\ tclear' = [tclear EXCEPT ![t] = 0]
    /\ UNCHANGED <<opts, shardMask, tkey, telem, tvalue, pendingDel>>

\* cleanupWorker (memory.go:236): one shard per step
SweepStep(s) ==
    /\ s \in Shards
    /\ cache' = Collect(cleanupExpired(cache, s), Held)
    /\ cache' # cache
    /\ UNCHANGED <<opts, shardMask, pc, tkey, telem, tvalue, tclear, pendingDel>>

\* time passes
TickStep ==
    /\ cache' = Elapse(cache)
    /\ UNCHANGED <<opts, shardMask, pc, tkey, telem, tvalue, tclear, pendingDel>>

InitCore ==
    /\ opts \in [MaxSize : MaxSizeOpts, ShardSize : ShardSizeOpts]
    /\ shardMask = NewShardMask(opts)
    /\ cache = NewCache
    /\ pc = [t \in Threads |-> "idle"]
    /\ tkey = [t \in Threads |-> <<>>]
    /\ telem = [t \in Threads |-> Nil]
    /\ tvalue = [t \in Threads |-> 0]
    /\ tclear = [t \in Threads |-> 0]
    /\ pendingDel = [k \in Keys |-> 0]

(***************************************************************************)
(* HLS playlists (pkg/hls).                                                *)
(*                                                                         *)
(* A playlist text is a sequence of lines.  A line is blank, a tag line    *)
(* (the text before the first colon and the text after it) or a URI line.  *)
(* The text after the colon is kept in the form it is written in: a        *)
(* decimal literal with its digits after the point, an EXTINF value, a     *)
(* word, or an attribute list with each value's quoting.  Parsing and      *)
(* formatting convert between these forms and the numbers and strings of   *)
(* the Playlist struct as strconv and fmt do.  Durations are counted in    *)
(* ticks of 1/10000.                                                       *)
(***************************************************************************)
TicksPerUnit == 10 * 1000

\* pkg/hls/tags.go
TagExtM3U == "#EXTM3U"
TagVersion == "#EXT-X-VERSION"
TagStreamInf == "#EXT-X-STREAM-INF"
TagMediaSequence == "#EXT-X-MEDIA-SEQUENCE"
TagMedia == "#EXT-X-MEDIA"
TagIFrameStreamInf == "#EXT-X-I-FRAME-STREAM-INF"
TagSessionData == "#EXT-X-SESSION-DATA"
TagIndependentSegments == "#EXT-X-INDEPENDENT-SEGMENTS"
TagTargetDuration == "#EXT-X-TARGETDURATION"
TagInf == "#EXTINF"
TagByteRange == "#EXT-X-BYTERANGE"
TagDiscontinuity == "#EXT-X-DISCONTINUITY"
TagKey == "#EXT-X-KEY"
TagMap == "#EXT-X-MAP"
TagProgramDateTime == "#EXT-X-PROGRAM-DATE-TIME"
TagEndList == "#EXT-X-ENDLIST"
TagDiscontinuitySequence == "#EXT-X-DISCONTINUITY-SEQUENCE"
TagAllowCache == "#EXT-X-ALLOW-CACHE"
TagPlaylistType == "#EXT-X-PLAYLIST-TYPE"
TagIFramesOnly == "#EXT-X-I-FRAMES-ONLY"
AttrBandwidth == "BANDWIDTH"
AttrCodecs == "CODECS"
AttrResolution == "RESOLUTION"
AttrHDCPLevel == "HDCP-LEVEL"
AttrAudio == "AUDIO"
AttrVideo == "VIDEO"
AttrSubtitles == "SUBTITLES"
AttrClosedCaptions == "CLOSED-CAPTIONS"
AttrURI == "URI"
AttrMethod == "METHOD"
AttrType == "TYPE"
AttrGroupID == "GROUP-ID"
AttrDataID == "DATA-ID"
PlaylistTypeUnknown == "Unknown"
PlaylistTypeMaster == "Master"
PlaylistTypeMedia == "Media"

\* the errors of Parse
ErrNone == ""
ErrPlaylistHeader == "missing #EXTM3U header"
ErrTagValue == "invalid tag value"
ErrMissingAttribute == "missing attribute"
ErrSegmentURI == "segment URI must follow EXTINF tag"

(***************************************************************************)
(* URLs (net/url): scheme, host, path and query.  The path is its segments *)
(* and whether it starts with a slash; the query is its key=value pairs in *)
(* the order of RawQuery.                                                  *)
(***************************************************************************)
URL(scheme, host, rooted, segs, query) ==
    [Scheme |-> scheme, Host |-> host, Rooted |-> rooted, Segs |-> segs,
     Query |-> query]

\* the empty string as a URL
EmptyURL == URL("", "", FALSE, <<>>, <<>>)

\* URL.IsAbs
IsAbs(u) == u.Scheme # ""

AllButLast(s) == IF Len(s) = 0 THEN <<>> ELSE SubSeq(s, 1, Len(s) - 1)

\* URL.ResolveReference, for a reference without scheme and without dot
\* segments: a reference that names a host keeps its host and path
ResolveReference(base, ref) ==
    IF ref.Host # "" THEN [ref EXCEPT !.Scheme = base.Scheme]
    ELSE IF ref.Rooted
    THEN [ref EXCEPT !.Scheme = base.Scheme, !.Host = base.Host]
    ELSE [ref EXCEPT !.Scheme = base.Scheme, !.Host = base.Host,
                     !.Rooted = TRUE, !.Segs = AllButLast(base.Segs) \o ref.Segs]

\* url.Values.Set followed by Encode, for a query that holds no other key
\* than the one set
QuerySet(query, key, value) ==
    LET other(kv) == kv[1] # key
    IN  SelectSeq(query, other) \o <<<<key, value>>>>

\* the path of a URL as text: its segments with the slashes between them
PathString(u) ==
    LET RECURSIVE from(_)
        from(i) ==
            IF i > Len(u.Segs) THEN <<>>
            ELSE (IF i > 1 \/ u.Rooted THEN <<"/">> ELSE <<>>)
                 \o <<u.Segs[i]>> \o from(i + 1)
    IN  from(1)

\* RawQuery: key=value pairs with "&" between them
QueryString(query) ==
    LET RECURSIVE from(_)
        from(i) ==
            IF i > Len(query) THEN <<>>
            ELSE (IF i > 1 THEN <<"&">> ELSE <<>>)
                 \o <<query[i][1], "=", query[i][2]>> \o from(i + 1)
    IN  from(1)

\* URL.String: the text of a URL, as the sequence of its pieces
URLString(u) ==
    (IF u.Scheme # "" THEN <<u.Scheme, ":">> ELSE <<>>)
    \o (IF u.Host # "" THEN <<"//", u.Host>> ELSE <<>>)
    \o PathString(u)
    \o (IF Len(u.Query) > 0 THEN <<"?">> \o QueryString(u.Query) ELSE <<>>)

\* url.Parse of a text made of such pieces
ParseURL(text) ==
    LET hasScheme == Len(text) >= 2 /\ text[2] = ":"
        afterScheme == IF hasScheme THEN SubSeq(text, 3, Len(text)) ELSE text
        hasHost == Len(afterScheme) >= 2 /\ afterScheme[1] = "//"
        afterHost == IF hasHost THEN SubSeq(afterScheme, 3, Len(afterScheme))
                     ELSE afterScheme
        mark == CHOOSE i \in 1..(Len(afterHost) + 1) :
                    /\ i = Len(afterHost) + 1 \/ afterHost[i] = "?"
                    /\ \A j \in 1..(i - 1) : afterHost[j] # "?"
        pathText == SubSeq(afterHost, 1, mark - 1)
        queryText == SubSeq(afterHost, mark + 1, Len(afterHost))
        segment(piece) == piece # "/"
    IN  URL(IF hasScheme THEN text[1] ELSE "",
            IF hasHost THEN afterScheme[2] ELSE "",
            Len(pathText) > 0 /\ pathText[1] = "/",
            SelectSeq(pathText, segment),
            [j \in 1..((Len(queryText) + 1) \div 4) |->
                <<queryText[4 * j - 3], queryText[4 * j - 1]>>])

\* url.QueryEscape and url.QueryUnescape: the pieces that separate are
\* written with percent signs
EscapePiece(piece) ==
    CASE piece = ":" -> "%3A"
      [] piece = "//" -> "%2F%2F"
      [] piece = "/" -> "%2F"
      [] piece = "?" -> "%3F"
      [] piece = "=" -> "%3D"
      [] piece = "&" -> "%26"
      [] OTHER -> piece

UnescapePiece(piece) ==
    CASE piece = "%3A" -> ":"
      [] piece = "%2F%2F" -> "//"
      [] piece = "%2F" -> "/"
      [] piece = "%3F" -> "?"
      [] piece = "%3D" -> "="
      [] piece = "%26" -> "&"
      [] OTHER -> piece

QueryEscape(text) == [i \in 1..Len(text) |-> EscapePiece(text[i])]
QueryUnescape(text) == [i \in 1..Len(text) |-> UnescapePiece(text[i])]

(***************************************************************************)
(* The forms of the text after a tag's colon, and of an attribute value.   *)
(***************************************************************************)
\* no colon: Tag.Value is ""
NoVal == [t |-> "none"]
\* decimal digits without a point
IntLit(n) == [t |-> "int", n |-> n]
\* a decimal number written with dec digits after the point
DecLit(num, dec) == [t |-> "dec", num |-> num, dec |-> dec]
\* any other text without "=" and ","
Word(s) == [t |-> "word", s |-> s]
\* the value of EXTINF: a number, and a comma and a title if comma
InfVal(d, comma, title) == [t |-> "inf", d |-> d, comma |-> comma, title |-> title]
\* NAME=value,NAME="value",...
AttrList(list) == [t |-> "attrs", list |-> list]
\* an attribute value that is a URI
UrlVal(u) == [t |-> "url", u |-> u]
Attr(key, val, quoted) == [key |-> key, val |-> val, q |-> quoted]

BlankLine == [k |-> "blank"]
TagLine(name, value) == [k |-> "tag", Name |-> name, Value |-> value]
UriLine(u) == [k |-> "uri", uri |-> u]

\* strconv.Atoi and strconv.ParseUint of unsigned decimal text
ParseUint(v) == IF v.t = "int" THEN [err |-> ErrNone, n |-> v.n]
                ELSE [err |-> ErrTagValue, n |-> 0]

\* strconv.ParseFloat, in ticks
ParseFloat(v) ==
    IF v.t = "int" THEN [err |-> ErrNone, x |-> v.n * TicksPerUnit]
    ELSE IF v.t = "dec" THEN [err |-> ErrNone, x |-> v.num]
    ELSE [err |-> ErrTagValue, x |-> 0]

\* fmt "%d" of int(x): the fraction is cut off
FormatInt(x) == IntLit(x \div TicksPerUnit)

\* fmt "%.3f" of x: rounded to the nearest thousandth
FormatF3(x) == DecLit(((x + 5) \div 10) * 10, 3)

EmptyMap == [k \in {} |-> NoVal]

\* parseAttributes (parser: the regexp over NAME=value pairs)
RECURSIVE attrsFrom(_, _, _)
attrsFrom(list, i, m) ==
    IF i > Len(list) THEN m
    ELSE attrsFrom(list, i + 1,
            [k \in (DOMAIN m) \cup {list[i].key} |->
                IF k = list[i].key THEN list[i].val ELSE m[k]])

parseAttributes(v) == IF v.t = "attrs" THEN attrsFrom(v.list, 1, EmptyMap) ELSE EmptyMap

\* parseAttributeUint
parseAttributeUint(attrs, name) ==
    IF name \notin DOMAIN attrs THEN [err |-> ErrMissingAttribute, n |-> 0]
    ELSE ParseUint(attrs[name])

\* parseInfValue: strings.SplitN(s, ",", 2), then ParseFloat of the first part
parseInfValue(v) ==
    IF v.t = "inf"
    THEN [err |-> ParseFloat(v.d).err, duration |-> ParseFloat(v.d).x,
          title |-> v.title]
    ELSE [err |-> ParseFloat(v).err, duration |-> ParseFloat(v).x, title |-> ""]

\* the URI an attribute value names
AttrURL(attrs, name) ==
    IF name \in DOMAIN attrs /\ attrs[name].t = "url" THEN attrs[name].u ELSE EmptyURL

\* the keys of a Go map in the order a range loop visits them; the maps of
\* the model hold at most one key where the order shows
RECURSIVE MapKeys(_)
MapKeys(S) == IF S = {} THEN <<>>
              ELSE LET k == CHOOSE k \in S : TRUE IN <<k>> \o MapKeys(S \ {k})

(***************************************************************************)
(* The Playlist struct and the parser (pkg/hls).  RawLines is written by   *)
(* Parse and read by nothing, and is left out.                             *)
(***************************************************************************)
\* NewPlaylist
NewPlaylist ==
    [Type |-> PlaylistTypeUnknown,
     Version |-> 1,
     Tags |-> <<>>,
     Master |-> [Variants |-> <<>>,
                 MediaGroups |-> [k \in {} |-> <<>>],
                 IFrameStreams |-> <<>>,
                 SessionData |-> <<>>,
                 HasIndependentSegments |-> FALSE],
     Media |-> [TargetDuration |-> 0,
                MediaSequence |-> 0,
                Segments |-> <<>>,
                EndList |-> FALSE,
                DiscontinuitySeq |-> 0,
                AllowCache |-> FALSE,
                PlaylistType |-> NoVal,
                IFramesOnly |-> FALSE,
                HasIndependentSegments |-> FALSE],
     OriginalHeader |-> ""]

\* lastTag == nil
NoTag == [Name |-> "", Value |-> NoVal, Attributes |-> EmptyMap]

AttrTags == {TagStreamInf, TagMedia, TagIFrameStreamInf, TagKey, TagMap, TagSessionData}

\* Parser.parseTag
parseTag(line) ==
    [Name |-> line.Name,
     Value |-> line.Value,
     Attributes |-> IF line.Value.t # "none" /\ line.Name \in AttrTags
                    THEN parseAttributes(line.Value) ELSE EmptyMap]

\* the attributes AddVariant writes quoted
QuotedAttrs == {AttrCodecs, AttrResolution, AttrAudio, AttrVideo, AttrSubtitles,
                AttrClosedCaptions, AttrHDCPLevel}

\* Playlist.AddVariant: the variant with RawAttributes built anew from the
\* attribute map, BANDWIDTH first
AddVariant(p, uri, bandwidth, attrs) ==
    LET others == MapKeys((DOMAIN attrs) \ {AttrBandwidth})
        parts == <<Attr(AttrBandwidth, IntLit(bandwidth), FALSE)>> \o
                 [i \in 1..Len(others) |->
                     Attr(others[i], attrs[others[i]], others[i] \in QuotedAttrs)]
        v == [URI |-> uri,
              Bandwidth |-> bandwidth,
              Codecs |-> IF AttrCodecs \in DOMAIN attrs THEN attrs[AttrCodecs] ELSE NoVal,
              RawAttributes |-> AttrList(parts)]
    IN  [p EXCEPT !.Master.Variants = Append(@, v), !.Type = PlaylistTypeMaster]

\* a nil *Key or *Map
NilPtr == [nil |-> TRUE]

\* Playlist.AddSegment: Key and Map stay nil; ByteRange, Discontinuity and
\* ProgramDateTime, which stay zero as well, are left out
AddSegment(p, uri, duration, title) ==
    LET s == [URI |-> uri, Duration |-> duration, Title |-> title,
              Key |-> NilPtr, Map |-> NilPtr]
    IN  [p EXCEPT !.Media.Segments = Append(@, s), !.Type = PlaylistTypeMedia]

Ok(p) == [pl |-> p, err |-> ErrNone]
Fail(p, e) == [pl |-> p, err |-> e]

\* Parser.processMediaGroup
processMediaGroup(p, tag) ==
    IF AttrType \notin DOMAIN tag.Attributes \/ AttrGroupID \notin DOMAIN tag.Attributes
    THEN Fail(p, ErrMissingAttribute)
    ELSE LET typeVal == tag.Attributes[AttrType]
             group == [Type |-> typeVal,
                       GroupID |-> tag.Attributes[AttrGroupID],
                       URI |-> AttrURL(tag.Attributes, AttrURI),
                       RawAttributes |-> tag.Value]
             old == p.Master.MediaGroups
             new == [k \in (DOMAIN old) \cup {typeVal} |->
                        IF k = typeVal
                        THEN Append(IF k \in DOMAIN old THEN old[k] ELSE <<>>, group)
                        ELSE old[k]]
         IN  Ok([p EXCEPT !.Master.MediaGroups = new])

\* Parser.processIFrameStream
processIFrameStream(p, tag) ==
    IF AttrURI \notin DOMAIN tag.Attributes THEN Fail(p, ErrMissingAttribute)
    ELSE LET bw == parseAttributeUint(tag.Attributes, AttrBandwidth)
             iframe == [URI |-> AttrURL(tag.Attributes, AttrURI),
                        Bandwidth |-> bw.n,
                        RawAttributes |-> tag.Value]
         IN  IF bw.err # ErrNone THEN Fail(p, bw.err)
             ELSE Ok([p EXCEPT !.Master.IFrameStreams = Append(@, iframe)])

\* Parser.processSessionData
processSessionData(p, tag) ==
    IF AttrDataID \notin DOMAIN tag.Attributes THEN Fail(p, ErrMissingAttribute)
    ELSE LET data == [DataID |-> tag.Attributes[AttrDataID],
                      URI |-> AttrURL(tag.Attributes, AttrURI),
                      RawAttributes |-> tag.Value]
         IN  Ok([p EXCEPT !.Master.SessionData = Append(@, data)])

SetType(r, type) == IF r.err # ErrNone THEN r ELSE Ok([r.pl EXCEPT !.Type = type])

\* the switch of Parser.processTag
tagSwitch(p, tag) ==
    CASE tag.Name = TagVersion ->
            IF ParseUint(tag.Value).err # ErrNone THEN Fail(p, ErrTagValue)
            ELSE Ok([p EXCEPT !.Version = ParseUint(tag.Value).n])
      [] tag.Name = TagTargetDuration ->
            IF ParseFloat(tag.Value).err # ErrNone THEN Fail(p, ErrTagValue)
            ELSE Ok([p EXCEPT !.Media.TargetDuration = ParseFloat(tag.Value).x,
                              !.Type = PlaylistTypeMedia])
      [] tag.Name = TagMediaSequence ->
            IF ParseUint(tag.Value).err # ErrNone THEN Fail(p, ErrTagValue)
            ELSE Ok([p EXCEPT !.Media.MediaSequence = ParseUint(tag.Value).n,
                              !.Type = PlaylistTypeMedia])
      [] tag.Name = TagDiscontinuitySequence ->
            IF ParseUint(tag.Value).err # ErrNone THEN Fail(p, ErrTagValue)
            ELSE Ok([p EXCEPT !.Media.DiscontinuitySeq = ParseUint(tag.Value).n,
                              !.Type = PlaylistTypeMedia])
      [] tag.Name = TagEndList ->
            Ok([p EXCEPT !.Media.EndList = TRUE, !.Type = PlaylistTypeMedia])
      [] tag.Name = TagAllowCache ->
            Ok([p EXCEPT !.Media.AllowCache = (tag.Value # Word("NO")),
                         !.Type = PlaylistTypeMedia])
      [] tag.Name = TagPlaylistType ->
            Ok([p EXCEPT !.Media.PlaylistType = tag.Value, !.Type = PlaylistTypeMedia])
      [] tag.Name = TagIFramesOnly ->
            Ok([p EXCEPT !.Media.IFramesOnly = TRUE, !.Type = PlaylistTypeMedia])
      [] tag.Name = TagIndependentSegments ->
            IF p.Type = PlaylistTypeMaster \/ p.Type = PlaylistTypeUnknown
            THEN Ok([p EXCEPT !.Master.HasIndependentSegments = TRUE])
            ELSE Ok([p EXCEPT !.Media.HasIndependentSegments = TRUE])
      [] tag.Name = TagMedia -> SetType(processMediaGroup(p, tag), PlaylistTypeMaster)
      [] tag.Name = TagIFrameStreamInf ->
            SetType(processIFrameStream(p, tag), PlaylistTypeMaster)
      [] tag.Name = TagSessionData ->
            SetType(processSessionData(p, tag), PlaylistTypeMaster)
      [] tag.Name = TagStreamInf -> Ok([p EXCEPT !.Type = PlaylistTypeMaster])
      [] tag.Name \in {TagInf, TagDiscontinuity, TagKey, TagByteRange,
                       TagProgramDateTime, TagMap} ->
            Ok([p EXCEPT !.Type = PlaylistTypeMedia])
      [] OTHER -> Ok(p)

\* Parser.processTag: the switch, then the tag is stored
processTag(p, tag) ==
    LET r == tagSwitch(p, tag)
    IN  IF r.err # ErrNone THEN r
        ELSE Ok([r.pl EXCEPT !.Tags = Append(@, tag)])

\* Parser.processVariantURI
processVariantURI(p, tag, uri) ==
    LET bw == parseAttributeUint(tag.Attributes, AttrBandwidth)
    IN  IF bw.err # ErrNone THEN Fail(p, bw.err)
        ELSE Ok(AddVariant(p, uri, bw.n, tag.Attributes))

\* processSegmentURI without its test of the tag before the URI line
processSegmentURIUnpaired(p, tag, uri) ==
    IF tag.Name # TagInf THEN Ok(AddSegment(p, uri, 0, ""))
    ELSE LET inf == parseInfValue(tag.Value)
         IN  IF inf.err # ErrNone THEN Fail(p, inf.err)
             ELSE Ok(AddSegment(p, uri, inf.duration, inf.title))

\* Parser.processSegmentURI
processSegmentURI(p, tag, uri) ==
    IF tag.Name # TagInf THEN Fail(p, ErrSegmentURI)
    ELSE LET inf == parseInfValue(tag.Value)
         IN  IF inf.err # ErrNone THEN Fail(p, inf.err)
             ELSE Ok(AddSegment(p, uri, inf.duration, inf.title))

\* the end of Parser.Parse: the type follows the variants and segments
parseEnd(p) ==
    IF Len(p.Master.Variants) > 0 THEN [p EXCEPT !.Type = PlaylistTypeMaster]
    ELSE IF Len(p.Media.Segments) > 0 THEN [p EXCEPT !.Type = PlaylistTypeMedia]
    ELSE p

\* the loop of Parser.Parse over the lines from line i on, on the parser's
\* playlist p; on an error the playlist stays as far as it was built
RECURSIVE parseLines(_, _, _, _)
parseLines(p, lastTag, body, i) ==
    IF i > Len(body) THEN Ok(parseEnd(p))
    ELSE LET line == body[i]
         IN  IF line.k = "blank" THEN parseLines(p, lastTag, body, i + 1)
             ELSE IF i = 1
             THEN IF line # TagLine(TagExtM3U, NoVal) THEN Fail(p, ErrPlaylistHeader)
                  ELSE parseLines([p EXCEPT !.OriginalHeader = TagExtM3U],
                                  lastTag, body, i + 1)
             ELSE IF line.k = "tag"
             THEN LET tag == parseTag(line)
                      r == processTag(p, tag)
                  IN  IF r.err # ErrNone THEN r
                      ELSE parseLines(r.pl, tag, body, i + 1)
             ELSE LET r == IF lastTag.Name = TagStreamInf
                           THEN processVariantURI(p, lastTag, line.uri)
                           ELSE processSegmentURI(p, lastTag, line.uri)
                  IN  IF r.err # ErrNone THEN r
                      ELSE parseLines(r.pl, NoTag, body, i + 1)

\* Parser.Parse on a parser whose playlist is p
Parse(p, body) == parseLines(p, NoTag, body, 1)

(***************************************************************************)
(* Playlist.String.                                                        *)
(***************************************************************************)
\* Tag.String
TagString(tag) == TagLine(tag.Name, tag.Value)

RECURSIVE Concat(_)
Concat(ss) == IF ss = <<>> THEN <<>> ELSE Head(ss) \o Concat(Tail(ss))

\* the lines of one segment
SegmentLines(segment) ==
    (IF ~segment.Key.nil THEN <<TagLine(TagKey, segment.Key.RawAttributes)>> ELSE <<>>) \o
    (IF ~segment.Map.nil THEN <<TagLine(TagMap, segment.Map.RawAttributes)>> ELSE <<>>) \o
    <<TagLine(TagInf,
              IF segment.Title # ""
              THEN InfVal(FormatF3(segment.Duration), TRUE, segment.Title)
              ELSE FormatF3(segment.Duration)),
      UriLine(segment.URI)>>

\* the master branch of Playlist.String
MasterLines(p) ==
    LET types == MapKeys(DOMAIN p.Master.MediaGroups)
    IN  (IF p.Master.HasIndependentSegments
         THEN <<TagLine(TagIndependentSegments, NoVal)>> ELSE <<>>) \o
        Concat([i \in 1..Len(types) |->
                  [j \in 1..Len(p.Master.MediaGroups[types[i]]) |->
                      TagLine(TagMedia, p.Master.MediaGroups[types[i]][j].RawAttributes)]]) \o
        [i \in 1..Len(p.Master.SessionData) |->
            TagLine(TagSessionData, p.Master.SessionData[i].RawAttributes)] \o
        Concat([i \in 1..Len(p.Master.Variants) |->
                  <<TagLine(TagStreamInf, p.Master.Variants[i].RawAttributes),
                    UriLine(p.Master.Variants[i].URI)>>]) \o
        [i \in 1..Len(p.Master.IFrameStreams) |->
            TagLine(TagIFrameStreamInf, p.Master.IFrameStreams[i].RawAttributes)]

\* the media branch of Playlist.String
MediaLines(p) ==
    (IF p.Media.HasIndependentSegments
     THEN <<TagLine(TagIndependentSegments, NoVal)>> ELSE <<>>) \o
    <<TagLine(TagTargetDuration, FormatInt(p.Media.TargetDuration)),
      TagLine(TagMediaSequence, IntLit(p.Media.MediaSequence))>> \o
    (IF p.Media.DiscontinuitySeq > 0
     THEN <<TagLine(TagDiscontinuitySequence, IntLit(p.Media.DiscontinuitySeq))>>
     ELSE <<>>) \o
    (IF ~p.Media.AllowCache THEN <<TagLine(TagAllowCache, Word("NO"))>> ELSE <<>>) \o
    (IF p.Media.PlaylistType.t # "none"
     THEN <<TagLine(TagPlaylistType, p.Media.PlaylistType)>> ELSE <<>>) \o
    (IF p.Media.IFramesOnly THEN <<TagLine(TagIFramesOnly, NoVal)>> ELSE <<>>) \o
    Concat([i \in 1..Len(p.Media.Segments) |-> SegmentLines(p.Media.Segments[i])]) \o
    (IF p.Media.EndList THEN <<TagLine(TagEndList, NoVal)>> ELSE <<>>)

\* Playlist.String: the header, the version, every stored tag, then the
\* lines of the playlist's type
String(p) ==
    LET other(tag) == tag.Name # TagExtM3U /\ tag.Name # TagVersion
        tags == SelectSeq(p.Tags, other)
    IN
    <<TagLine(TagExtM3U, NoVal), TagLine(TagVersion, IntLit(p.Version))>> \o
    [i \in 1..Len(tags) |-> TagString(tags[i])] \o
    (IF p.Type = PlaylistTypeMaster THEN MasterLines(p)
     ELSE IF p.Type = PlaylistTypeMedia THEN MediaLines(p)
     ELSE <<>>)

(***************************************************************************)
(* The rewriter (internal/playlist).                                       *)
(***************************************************************************)
ErrInvalidPlaylist == "invalid playlist"
ErrEmptyToken == "empty token"
ErrEmptyTokenParamName == "empty token parameter name"

\* resolveURL that returns the URL as parsed, never resolved
resolveURLUnresolved(baseURL, u) ==
    IF u = EmptyURL THEN [err |-> "empty URL", url |-> EmptyURL]
    ELSE [err |-> ErrNone, url |-> u]

\* resolveURL (modifier.go): the empty URL is an error
resolveURL(baseURL, u) ==
    IF u = EmptyURL THEN [err |-> "empty URL", url |-> EmptyURL]
    ELSE IF IsAbs(u) THEN [err |-> ErrNone, url |-> u]
    ELSE [err |-> ErrNone, url |-> ResolveReference(baseURL, u)]

\* MasterProcessor.generateProxyPath.  With UsePathParam false, as the
\* handler sets it (handler.go:208): the proxy's path, then the target's
\* path; the token, then the target's query.  With UsePathParam true: the
\* proxy's path, and the text of the target as the value of PathParamName
\* in the query that Encode writes (sorted by key, the token's name before
\* "url").  No scheme and no host
generateProxyPath(proxyURL, options, targetURL, token) ==
    LET withToken == IF options.TokenParamName # "" /\ token # ""
                     THEN <<<<options.TokenParamName, token>>>> ELSE <<>>
    IN  IF options.UsePathParam
        THEN URL("", "", proxyURL.Rooted, proxyURL.Segs,
                 withToken \o <<<<options.PathParamName,
                                  QueryEscape(URLString(targetURL))>>>>)
        ELSE URL("", "", proxyURL.Rooted \/ proxyURL.Segs = <<>>,
                 proxyURL.Segs \o targetURL.Segs,
                 withToken \o targetURL.Query)

\* MasterProcessor.processVariant, processIFrameStream and
\* processMediaGroup: the new value of the URI field
proxyURI(baseURL, proxyURL, options, uri, token) ==
    IF uri = EmptyURL THEN uri
    ELSE generateProxyPath(proxyURL, options, resolveURL(baseURL, uri).url, token)

\* MasterProcessor.Process
MasterProcess(p, baseURL, proxyURL, options, token) ==
    LET fix(x) == [x EXCEPT !.URI = proxyURI(baseURL, proxyURL, options, @, token)]
    IN  [p EXCEPT
           !.Master.Variants = [i \in 1..Len(@) |-> fix(@[i])],
           !.Master.IFrameStreams = [i \in 1..Len(@) |-> fix(@[i])],
           !.Master.MediaGroups =
               [k \in DOMAIN @ |-> [i \in 1..Len(@[k]) |-> fix(@[k][i])]]]

\* MediaProcessor.addTokenToURL
addTokenToURL(options, targetURL, token) ==
    IF token = "" \/ options.TokenParamName = "" THEN targetURL
    ELSE [targetURL EXCEPT !.Query = QuerySet(@, options.TokenParamName, token)]

\* MediaProcessor.processSegment, processKey and processMap: the new value
\* of the URI field
directURI(baseURL, options, uri, token) ==
    IF uri = EmptyURL THEN uri
    ELSE addTokenToURL(options, resolveURL(baseURL, uri).url, token)

\* MediaProcessor.processSegment
processSegment(baseURL, options, segment, token) ==
    IF segment.URI = EmptyURL THEN segment
    ELSE LET fix(x) == IF x.nil THEN x
                       ELSE [x EXCEPT !.URI = directURI(baseURL, options, @, token)]
         IN  [segment EXCEPT !.URI = directURI(baseURL, options, @, token),
                             !.Key = fix(@), !.Map = fix(@)]

\* MediaProcessor.Process
MediaProcess(p, baseURL, options, token) ==
    [p EXCEPT !.Media.Segments =
        [i \in 1..Len(@) |-> processSegment(baseURL, options, @[i], token)]]

\* Modifier.Process
ModifierProcess(p, baseURL, proxyURL, options, token) ==
    IF token = "" THEN Fail(p, ErrEmptyToken)
    ELSE IF options.TokenParamName = "" THEN Fail(p, ErrEmptyTokenParamName)
    ELSE IF p.Type = PlaylistTypeMaster
    THEN Ok(MasterProcess(p, baseURL, proxyURL, options, token))
    ELSE IF p.Type = PlaylistTypeMedia
    THEN Ok(MediaProcess(p, baseURL, options, token))
    ELSE Fail(p, ErrInvalidPlaylist)

\* Parser.ParseAndProcessBytes (internal/playlist/parser.go) on the one
\* hls.Parser the playlist.Parser holds: pl is that parser's playlist
\* afterwards, text the bytes returned
ParseAndProcessBytes(p, body, baseURL, proxyURL, options, token) ==
    LET parsed == Parse(p, body)
        processed == ModifierProcess(parsed.pl, baseURL, proxyURL, options, token)
    IN  IF parsed.err # ErrNone THEN [pl |-> parsed.pl, err |-> parsed.err, text |-> <<>>]
        ELSE IF processed.err # ErrNone
        THEN [pl |-> processed.pl, err |-> processed.err, text |-> <<>>]
        ELSE [pl |-> processed.pl, err |-> ErrNone, text |-> String(processed.pl)]

(***************************************************************************)
(* The playlists, URLs and credential of the model.                        *)
(***************************************************************************)
\* the target URL of the request at the origin, the proxy's URL of the
\* request, the processor options of handlePlaylist and the token
BaseURL == URL("http", "origin", TRUE, <<"live", "master.m3u8">>, <<>>)
ProxyURL == URL("http", "proxy", TRUE, <<"hls">>, <<>>)
Options == [TokenParamName |-> "token", PathParamName |-> "url", UsePathParam |-> FALSE]
Token == "T"

RelURI(name) == URL("", "", FALSE, <<name>>, <<>>)

\* an absolute URI at a host that is neither the origin nor the proxy
AbsURI(name) == URL("http", "cdn", TRUE, <<name>>, <<>>)

\* the lines playlists are made of
Lines ==
    {TagLine(TagExtM3U, NoVal),
     BlankLine,
     \* #EXT-X-TARGETDURATION:6.5
     TagLine(TagTargetDuration, DecLit(65000, 1)),
     \* #EXT-X-STREAM-INF:BANDWIDTH=1000
     TagLine(TagStreamInf, AttrList(<<Attr(AttrBandwidth, IntLit(1000), FALSE)>>)),
     \* a URI line
     UriLine(RelURI("a")),
     \* the URI line http://cdn/b
     UriLine(AbsURI("b")),
     \* #EXTINF:5.0004,
     TagLine(TagInf, InfVal(DecLit(50004, 4), TRUE, "")),
     \* #EXT-X-KEY:METHOD=AES-128,URI="key"
     TagLine(TagKey, AttrList(<<Attr(AttrMethod, Word("AES-128"), FALSE),
                                Attr(AttrURI, UrlVal(RelURI("key")), TRUE)>>)),
     \* #EXT-X-MAP:URI="init"
     TagLine(TagMap, AttrList(<<Attr(AttrURI, UrlVal(RelURI("init")), TRUE)>>)),
     \* #EXT-X-I-FRAME-STREAM-INF:BANDWIDTH=1000,URI="iframe"
     TagLine(TagIFrameStreamInf,
             AttrList(<<Attr(AttrBandwidth, IntLit(1000), FALSE),
                        Attr(AttrURI, UrlVal(RelURI("iframe")), TRUE)>>)),
     \* #EXT-X-MEDIA:TYPE=AUDIO,GROUP-ID="aud",URI="audio"
     TagLine(TagMedia,
             AttrList(<<Attr(AttrType, Word("AUDIO"), FALSE),
                        Attr(AttrGroupID, Word("aud"), TRUE),
                        Attr(AttrURI, UrlVal(RelURI("audio")), TRUE)>>)),
     \* #EXT-X-ENDLIST
     TagLine(TagEndList, NoVal),
     \* an unknown tag, #EXT-X-FOO:bar
     TagLine("#EXT-X-FOO", Word("bar"))}

\* the playlist texts of at most n lines
Bodies(n) == UNION {[1..m -> Lines] : m \in 1..n}

VARIABLES
    stage,     \* hls: "new", "parsed", "processed", "serialized" (String of
               \* the parsed playlist), "rewritten" (String of the processed
               \* playlist), "rewritten again", "reparsed", "failed"
    body,      \* hls: the text given to Parse
    pl,        \* hls: the playlist of the parser hls.New() made for body
    text,      \* hls: what String returned
    second,    \* hls: the result of a second hls.New().Parse, of text
    hpl,       \* Handler: the playlist of the hls.Parser inside the one
               \* playlist.Parser NewHandler creates (handler.go:86)
    served,    \* Handler: the number of playlist requests served
    reqBody,   \* Handler: the origin body of the last request
    resp       \* Handler: the error and the body of the last response

hlsVars == <<stage, body, pl, text, second>>
handlerVars == <<hpl, served, reqBody, resp>>

InitPlaylists ==
    /\ stage = "new"
    /\ body = <<>>
    /\ pl = NewPlaylist
    /\ text = <<>>
    /\ second = Ok(NewPlaylist)
    /\ hpl = NewPlaylist
    /\ served = 0
    /\ reqBody = <<>>
    /\ resp = [err |-> ErrNone, text |-> <<>>]

(***************************************************************************)
(* Credentials (pkg/jwtheader, internal/jwt).                              *)
(*                                                                         *)
(* A token string is the sequence of its parts between the dots, as        *)
(* strings.Split(token, ".") returns them; the empty string is one empty   *)
(* part.  A part is kept as what base64 and JSON decoding make of it: a    *)
(* header object, a claims object, signature bytes, or bytes that do not   *)
(* decode.  Times are Unix seconds.                                        *)
(***************************************************************************)
EmptyPart == [k |-> "empty"]
GarbagePart == [k |-> "garbage"]
SigPart == [k |-> "sig"]
HeaderPart(alg) == [k |-> "header", alg |-> alg]

\* the aud claim: absent, a string, or a list of strings
NoAud == [t |-> "nil"]
AudString(s) == [t |-> "string", s |-> s]
AudList(l) == [t |-> "list", l |-> l]

\* the exp claim: absent, or a number
NoExp == [has |-> FALSE, n |-> 0]
Exp(n) == [has |-> TRUE, n |-> n]

\* iss and sub: "" when the claim is absent
PayloadPart(iss, sub, aud, exp) ==
    [k |-> "payload", iss |-> iss, sub |-> sub, aud |-> aud, exp |-> exp]

EmptyString == <<EmptyPart>>

\* errors of pkg/jwtheader
ErrInvalidToken == "invalid JWT token"
ErrTokenExpired == "token has expired"
ErrInvalidSignature == "invalid token signature"
ErrMissingClaim == "required claim is missing"
ErrInvalidAlgorithm == "unsupported signing algorithm"
ErrInvalidIssuer == "invalid token issuer"
ErrInvalidAudience == "invalid token audience"
ErrNoToken == "no token found"
ErrHeaderEncoding == "invalid header encoding"
ErrPayloadEncoding == "invalid payload encoding"

BearerPrefix == "Bearer "
JWTPrefix == "JWT "

\* IsValidJWT: three parts, none empty
IsValidJWT(token) ==
    /\ Len(token) = 3
    /\ \A i \in 1..Len(token) : token[i] # EmptyPart

\* isAllowedAlgorithm: an empty list allows every algorithm
isAllowedAlgorithm(alg, allowed) ==
    \/ Len(allowed) = 0
    \/ \E i \in 1..Len(allowed) : allowed[i] = alg

\* parseClaims: the standard claims of the claims object; a payload that
\* decodes to a header object has none of them
parseClaims(part) ==
    IF part.k = "payload"
    THEN [Issuer |-> part.iss, Subject |-> part.sub, Audience |-> part.aud,
          ExpirationTime |-> IF part.exp.has THEN part.exp.n ELSE 0]
    ELSE [Issuer |-> "", Subject |-> "", Audience |-> NoAud, ExpirationTime |-> 0]

\* one claim of validateRequiredClaims, for the claims iss, sub, aud, exp
claimPresent(claims, claim) ==
    IF claim = "iss" THEN claims.Issuer # ""
    ELSE IF claim = "sub" THEN claims.Subject # ""
    ELSE IF claim = "aud" THEN claims.Audience # NoAud
    ELSE IF claim = "exp" THEN claims.ExpirationTime # 0
    ELSE FALSE

\* validateRequiredClaims
validateRequiredClaims(claims, required) ==
    IF \A i \in 1..Len(required) : claimPresent(claims, required[i])
    THEN ErrNone ELSE ErrMissingClaim

\* hasAudience
hasAudience(claims, expected) ==
    IF claims.Audience.t = "string" THEN claims.Audience.s = expected
    ELSE IF claims.Audience.t = "list"
    THEN \E i \in 1..Len(claims.Audience.l) : claims.Audience.l[i] = expected
    ELSE FALSE

NoClaims == [Issuer |-> "", Subject |-> "", Audience |-> NoAud, ExpirationTime |-> 0]

\* ParseAndVerify at the time now; the signature is not verified
ParseAndVerify(tokenString, vopts, now) ==
    LET parts == tokenString
        claims == parseClaims(parts[2])
        fail(e) == [claims |-> NoClaims, err |-> e]
    IN  IF ~IsValidJWT(tokenString) THEN fail(ErrInvalidToken)
        ELSE IF parts[1].k \notin {"header", "payload"} THEN fail(ErrHeaderEncoding)
        ELSE IF parts[2].k \notin {"header", "payload"} THEN fail(ErrPayloadEncoding)
        ELSE IF ~isAllowedAlgorithm(IF parts[1].k = "header" THEN parts[1].alg ELSE "",
                                    vopts.AllowedAlgs)
        THEN fail(ErrInvalidAlgorithm)
        ELSE IF validateRequiredClaims(claims, vopts.RequiredClaims) # ErrNone
        THEN fail(validateRequiredClaims(claims, vopts.RequiredClaims))
        ELSE IF claims.ExpirationTime > 0 /\ now > claims.ExpirationTime
        THEN fail(ErrTokenExpired)
        ELSE IF vopts.Issuer # "" /\ claims.Issuer # "" /\ claims.Issuer # vopts.Issuer
        THEN fail(ErrInvalidIssuer)
        ELSE IF vopts.Audience # "" /\ ~hasAudience(claims, vopts.Audience)
        THEN fail(ErrInvalidAudience)
        ELSE [claims |-> claims, err |-> ErrNone]

(***************************************************************************)
(* A request carries the configured header (its value is a prefix followed *)
(* by a token string) and the configured query parameter.                  *)
(***************************************************************************)
HeaderValue(prefix, tok) == [prefix |-> prefix, tok |-> tok]
NoHeader == HeaderValue("", EmptyString)
Request(header, query) == [Header |-> header, Query |-> query]

\* the string prefix followed by tok: the prefix becomes part of the
\* first part
WithPrefix(prefix, tok) ==
    IF prefix = "" THEN tok
    ELSE [tok EXCEPT ![1] = [k |-> "prefixed", prefix |-> prefix, part |-> tok[1]]]

\* FromHeader: Bearer and JWT prefixes are cut off, any other header value
\* is returned as it is
FromHeader(r) ==
    IF r.Header = NoHeader THEN [token |-> EmptyString, err |-> ErrNoToken]
    ELSE IF r.Header.prefix = BearerPrefix THEN [token |-> r.Header.tok, err |-> ErrNone]
    ELSE IF r.Header.prefix = JWTPrefix THEN [token |-> r.Header.tok, err |-> ErrNone]
    ELSE [token |-> WithPrefix(r.Header.prefix, r.Header.tok), err |-> ErrNone]

\* FromQuery
FromQuery(r) ==
    IF r.Query = EmptyString THEN [token |-> EmptyString, err |-> ErrNoToken]
    ELSE [token |-> r.Query, err |-> ErrNone]

\* FromRequest: the header first, then the query parameter
FromRequest(r) ==
    IF FromHeader(r).err = ErrNone THEN FromHeader(r)
    ELSE IF FromHeader(r).err # ErrNoToken
    THEN [token |-> EmptyString, err |-> FromHeader(r).err]
    ELSE FromQuery(r)

\* errors of internal/jwt
ErrTokenRequired == "JWT token is required"
ErrTokenInvalid == "JWT token is invalid"
ErrJWTTokenExpired == "JWT token has expired"
ErrExtraction == "failed to extract JWT token"
ErrValidation == "JWT token validation failed"

StatusUnauthorized == 401
StatusBadRequest == 400

NewTokenError(err, statusCode, message) ==
    [Err |-> err, StatusCode |-> statusCode, Message |-> message]
NoError == NewTokenError(<<>>, 0, "")
NewTokenRequiredError ==
    NewTokenError(<<ErrTokenRequired>>, StatusUnauthorized, "authentication token is required")
NewTokenInvalidError ==
    NewTokenError(<<ErrTokenInvalid>>, StatusUnauthorized, "authentication token is invalid")
NewTokenExpiredError ==
    NewTokenError(<<ErrJWTTokenExpired>>, StatusUnauthorized, "authentication token has expired")
NewExtractionError(err) ==
    NewTokenError(<<ErrExtraction, err>>, StatusBadRequest,
                  "failed to extract authentication token")
NewValidationError(err) ==
    NewTokenError(<<ErrValidation, err>>, StatusUnauthorized,
                  "authentication token validation failed")

\* Extractor.Extract
Extract(r) ==
    LET found == FromRequest(r)
    IN  IF found.err # ErrNone
        THEN [token |-> EmptyString,
              err |-> IF found.err = ErrNoToken THEN NewTokenRequiredError
                      ELSE NewExtractionError(found.err)]
        ELSE IF ~IsValidJWT(found.token)
        THEN [token |-> EmptyString, err |-> NewTokenInvalidError]
        ELSE [token |-> found.token, err |-> NoError]

\* errors of internal/proxy, which are no *jwt.TokenError
ErrNoTargetURL == "no target URL provided"
ErrInvalidTargetURL == "invalid target URL"
ErrOriginError == "origin server error"
ErrParsingPlaylist == "error parsing playlist"
ErrOriginUnreachable == "connection refused"
ErrHeaderTimeout == "timeout awaiting response headers"
ErrUnsupportedScheme == "unsupported protocol scheme"
ErrUnexpectedEOF == "unexpected EOF"
ProxyError(err) == [Err |-> <<err>>]

StatusOK == 200
StatusForbidden == 403
StatusNotFound == 404
StatusInternalServerError == 500
StatusBadGateway == 502

\* Handler.handleError with "Internal server error" for every error that is
\* no *jwt.TokenError
handleErrorInternal(err, statusCode) ==
    IF "StatusCode" \in DOMAIN err
    THEN [Status |-> err.StatusCode, Code |-> "token_error", Message |-> err.Message]
    ELSE [Status |-> StatusInternalServerError, Code |-> "proxy_error",
          Message |-> "Internal server error"]

\* Handler.handleError: a *jwt.TokenError answers with its own status and
\* the code token_error, every other error with the status handed in
handleError(err, statusCode) ==
    IF "StatusCode" \in DOMAIN err
    THEN [Status |-> err.StatusCode, Code |-> "token_error", Message |-> err.Message]
    ELSE [Status |-> statusCode, Code |-> "proxy_error",
          Message |-> IF statusCode = StatusBadRequest THEN "Bad request"
                      ELSE IF statusCode = StatusUnauthorized THEN "Unauthorized"
                      ELSE IF statusCode = StatusForbidden THEN "Forbidden"
                      ELSE IF statusCode = StatusNotFound THEN "Not found"
                      ELSE IF statusCode = StatusBadGateway THEN "Origin server error"
                      ELSE "Internal server error"]

(***************************************************************************)
(* The validator (internal/jwt) on the shared cache.                       *)
(***************************************************************************)
\* Validator.cacheTTL, in seconds (5 * time.Minute)
CacheTTL == 300
\* the seconds addToCache takes off the remaining validity
ExpiryBuffer == 30

\* Claims.IsExpired
IsExpired(claims, now) ==
    IF claims.ExpirationTime = 0 THEN FALSE ELSE now > claims.ExpirationTime

\* Claims.RemainingValidity
RemainingValidity(claims, now) ==
    IF claims.ExpirationTime = 0 THEN 0
    ELSE IF claims.ExpirationTime - now < 0 THEN 0
    ELSE claims.ExpirationTime - now

\* the TTL addToCache hands to Cache.Set, in seconds
addToCacheTTL(claims, now) ==
    IF claims.ExpirationTime > 0 /\ RemainingValidity(claims, now) > 0
           /\ RemainingValidity(claims, now) - ExpiryBuffer < CacheTTL
    THEN RemainingValidity(claims, now) - ExpiryBuffer
    ELSE CacheTTL

\* MemoryCache.Get run by one goroutine from its first lock to its return:
\* stale tells that an expired entry was found and `go c.Delete(key)` was
\* started
GetCache(c, key) ==
    LET element == c.items[key]
    IN  IF element = Nil
        THEN [cache |-> c, hit |-> FALSE, stale |-> FALSE, value |-> 0]
        ELSE IF isExpired(c.val[element])
        THEN [cache |-> c, hit |-> FALSE, stale |-> TRUE, value |-> 0]
        ELSE [cache |-> ListMoveToFront(c, getShard(key), element),
              hit |-> TRUE, stale |-> FALSE, value |-> c.val[element].value]

\* the element a Set on the cache c allocates for a new key
FreshElem(c) == CHOOSE x \in Free(c, Held) : \A y \in Free(c, Held) : x <= y

\* MemoryCache.Set and MemoryCache.Delete run by one goroutine
PutCache(c, key, value, ttl) == Collect(SetCache(c, key, value, ttl, FreshElem(c)), Held)
DropCache(c, key) == Collect(DeleteCache(c, key), Held)

\* the error ValidateToken returns for an error of ParseAndVerify
validationError(err) ==
    IF err = ErrTokenExpired THEN NewTokenExpiredError
    ELSE IF err \in {ErrInvalidToken, ErrInvalidSignature} THEN NewTokenInvalidError
    ELSE NewValidationError(err)

\* Validator.ValidateToken at the time now on the cache c: key is the cache
\* key "jwt:token:" + token and value the cached pointer to the token's
\* claims; from tells whether the verdict came from the cache
ValidateToken(c, config, useCache, token, key, value, now) ==
    LET got == IF useCache THEN GetCache(c, key)
               ELSE [cache |-> c, hit |-> FALSE, stale |-> FALSE, value |-> 0]
        cachedClaims == parseClaims(token[2])
        verified == ParseAndVerify(token, config, now)
    IN  IF got.hit
        THEN IF IsExpired(cachedClaims, now)
             THEN [cache |-> DropCache(got.cache, key), stale |-> FALSE,
                   claims |-> NoClaims, err |-> NewTokenExpiredError, from |-> "cache"]
             ELSE [cache |-> got.cache, stale |-> FALSE,
                   claims |-> cachedClaims, err |-> NoError, from |-> "cache"]
        ELSE IF verified.err # ErrNone
        THEN [cache |-> got.cache, stale |-> got.stale,
              claims |-> NoClaims, err |-> validationError(verified.err), from |-> "fresh"]
        ELSE [cache |-> IF useCache
                        THEN PutCache(got.cache, key, value,
                                      addToCacheTTL(verified.claims, now))
                        ELSE got.cache,
              stale |-> got.stale,
              claims |-> verified.claims, err |-> NoError, from |-> "fresh"]

\* time.Now() advances by d seconds: Elapse, d times
ElapseBy(c, d) ==
    [c EXCEPT !.val = [e \in Elems |->
        IF c.val[e].hasExpiry /\ c.val[e].expiry > Past
        THEN [c.val[e] EXCEPT !.expiry = IF @ - d < Past THEN Past ELSE @ - d]
        ELSE c.val[e]]]

(***************************************************************************)
(* The credentials, configurations and requests of the model.              *)
(***************************************************************************)
\* time.Now().Unix() when the model starts
StartTime == 100

JWT(alg, iss, sub, aud, exp) ==
    <<HeaderPart(alg), PayloadPart(iss, sub, aud, exp), SigPart>>

Algs == {"HS256", "none"}
Issuers == {"", "iss1", "other"}
Subjects == {"", "p1"}
Audiences == {NoAud, AudString("aud1"), AudString("other"),
              AudList(<<"x", "aud1">>), AudList(<<"x">>)}
\* no exp; exp before 1970; exp a second ago; exp now; exp in 20, 30, 31
\* and 400 seconds
Expiries == {NoExp, Exp(0 - 1)}
            \cup {Exp(StartTime + d) : d \in {0 - 1, 0, 20, ExpiryBuffer, ExpiryBuffer + 1,
                                              CacheTTL + 100}}

Tokens == {JWT(alg, iss, sub, aud, exp) :
              alg \in Algs, iss \in Issuers, sub \in Subjects, aud \in Audiences,
              exp \in Expiries}

\* the fields of config.JWTConfig that ValidateToken hands to ParseAndVerify
JWTConfig(algs, required, issuer, audience) ==
    [AllowedAlgs |-> algs, RequiredClaims |-> required, Issuer |-> issuer,
     Audience |-> audience]

Configs == {JWTConfig(algs, required, issuer, audience) :
               algs \in {<<>>, <<"HS256">>},
               required \in {<<>>, <<"sub">>, <<"sub", "exp">>},
               issuer \in {"", "iss1"},
               audience \in {"", "aud1"}}

\* a configuration every token with a known algorithm passes, and a token
GoodConfig == JWTConfig(<<"HS256">>, <<>>, "", "")
GoodToken == JWT("HS256", "iss1", "p1", AudString("aud1"), Exp(StartTime + CacheTTL + 100))

\* the tokens whose verdicts the cache is tried with: one per value of exp
TimedTokens == {JWT("HS256", "iss1", "p1", AudString("aud1"), exp) : exp \in Expiries}

\* token strings: a token, no string, two parts ("abc.def"), an empty
\* middle part ("a..c"), four parts, a first part that is not base64
TokenStrings ==
    {GoodToken, EmptyString,
     <<GoodToken[1], GoodToken[2]>>,
     <<GoodToken[1], EmptyPart, GoodToken[3]>>,
     GoodToken \o <<SigPart>>,
     <<GarbagePart, GoodToken[2], GoodToken[3]>>}

Prefixes == {"", BearerPrefix, JWTPrefix, "Basic "}

Requests == {Request(HeaderValue(p, t), q) :
                p \in Prefixes, t \in TokenStrings, q \in TokenStrings}

\* the cache keys "jwt:token:" + token: the token of the run has the first
\* key, every other string the second
FirstKey == <<96 + 1>>
SecondKey == <<96 + 2>>

VARIABLES
    jcfg,    \* jwt: the JWTConfig of the validator
    jtok,    \* jwt: the token the clients of this run hold
    jreq,    \* jwt: the request handed to Extract
    jres,    \* jwt: what Extract, ParseAndVerify or ValidateToken returned last
    now,     \* time.Now().Unix()
    ticks    \* the number of times the clock was advanced

jwtVars == <<jcfg, jtok, jreq, jres, now, ticks>>

TokenKey(token) == IF token = jtok THEN FirstKey ELSE SecondKey

NoResult == [op |-> "none"]

InitJwt ==
    /\ jcfg = GoodConfig
    /\ jtok = GoodToken
    /\ jreq = Request(NoHeader, EmptyString)
    /\ jres = NoResult
    /\ now = StartTime
    /\ ticks = 0

VARIABLES
    enabled,  \* Handler: config.Cache.Enabled; main.go creates the cache
              \* only when it is set
    rpath,    \* Handler: the path the clients of this run request
    fetches,  \* the number of requests the origin has received
    last,     \* Handler: the request ServeHTTP served last, the time it
              \* arrived, the pipeline stages run for it in the order they
              \* were run, the requests it sent to the origin, the TTL its
              \* content was stored with and the response
    prev      \* Handler: the same of the request served before last

serveVars == <<enabled, rpath, fetches, last, prev>>

\* the requests that are in the server at the same time
MaxInFlight == 3
Reqs == 1..MaxInFlight

\* the player IDs of the tokens (Claims.GetPlayerID), "" for a token
\* without one
PlayerIDs == {"", "p1", "p2"}

VARIABLES
    tracker,    \* Handler.redisTracker is not nil
    rpc,        \* per request: where its goroutine is in ServeHTTP
    rid,        \* per request: the player ID of its token
    mu,         \* Tracker.mu: the request that holds it, 0 if none does
    players,    \* Tracker.players: the ActivityCount of each player, 0 for
                \* a player that is not in the map
    phase,      \* main: "serving", "stopping" (in Server.Stop), "drained"
                \* (WaitForShutdown returned), "complete", "exited"
    accepting,  \* the listener of the http.Server is open
    active,     \* the number of requests in flight
    elapsed,    \* the time since the signal, up to the shutdown timeout
    exitCode    \* the status the process ended with, -1 while it runs
    ,
    shardCount, \* cache: MemoryOptions.ShardSize of the cache that routes
    routed,     \* cache: the keys getShard was called with and the index
                \* of the shard it returned for each
    started,    \* Server.started
    stopped,    \* Server.stopped
    httpServer, \* Server.server: 0 for nil, else the goroutine whose Start
                \* made the http.Server
    lpc,        \* per goroutine: where it is in Start or Stop
    lres,       \* per goroutine: what its last Start or Stop returned
    shutdownOn, \* what Stop called Shutdown on: "none" yet, "nil" or "server"
    trip,       \* a URI of a master playlist, what the rewrite makes of it
                \* and the target of the request for the rewritten URI
    rtoken,     \* the token of the playlist request served last
    alone       \* per token: what the parser of a Handler holds and answers
                \* whose requests are the served ones, all with that token

trackVars == <<tracker, rpc, rid, mu, players>>
shutdownVars == <<phase, accepting, active, elapsed, exitCode>>
routeVars == <<shardCount, routed>>
lifeVars == <<started, stopped, httpServer, lpc, lres, shutdownOn>>
tripVars == <<trip>>
crossVars == <<rtoken, alone>>
procVars == <<trackVars, shutdownVars, routeVars, lifeVars, tripVars, crossVars>>

\* no URI rewritten
NoTrip ==
    [phase |-> "none", uri |-> EmptyURL, base |-> EmptyURL, proxy |-> EmptyURL,
     usePathParam |-> FALSE, token |-> "", rewritten |-> EmptyURL,
     target |-> EmptyURL, err |-> ""]

InitTrip == trip = NoTrip

\* the tokens of the requests for playlists
CrossTokens == {"T", "U"}

InitCross ==
    /\ rtoken = ""
    /\ alone = [t \in CrossTokens |-> [pl |-> NewPlaylist, err |-> ErrNone, text |-> <<>>]]

\* the goroutines that call Start and Stop
NumGoroutines == 3
Goroutines == 1..NumGoroutines

InitRoute ==
    /\ shardCount = 1
    /\ routed = {}

InitLife ==
    /\ started = FALSE
    /\ stopped = FALSE
    /\ httpServer = 0
    /\ lpc = [g \in Goroutines |-> "idle"]
    /\ lres = [g \in Goroutines |-> "none"]
    /\ shutdownOn = "none"

InitProc ==
    /\ tracker = FALSE
    /\ rpc = [r \in Reqs |-> "arrived"]
    /\ rid = [r \in Reqs |-> ""]
    /\ mu = 0
    /\ players = [id \in PlayerIDs \ {""} |-> 0]
    /\ phase = "serving"
    /\ accepting = TRUE
    /\ active = 0
    /\ elapsed = 0
    /\ exitCode = -1
    /\ InitRoute /\ InitLife /\ InitTrip /\ InitCross

\* a request to the proxy: the credential header and query parameter, the
\* path and the url query parameter
ProxyRequest(header, query, path, target) ==
    [Header |-> header, Query |-> query, Path |-> path, Target |-> target]

\* the response ServeHTTP writes
Response(status, code, contentType, xcache, respBody) ==
    [Status |-> status, Code |-> code, ContentType |-> contentType,
     XCache |-> xcache, Body |-> respBody]

NoRequest == ProxyRequest(NoHeader, EmptyString, <<>>, "")
NoOrigin ==
    [StatusCode |-> 0, ContentType |-> "", Body |-> <<>>, Err |-> "", ReadErr |-> FALSE]
NoneServed ==
    [req |-> NoRequest, at |-> 0, trace |-> <<>>, fetched |-> 0, ttl |-> 0,
     origin |-> NoOrigin, before |-> 0, run |-> 0,
     resp |-> Response(0, "", "", "", <<>>)]

InitServe ==
    /\ enabled = TRUE
    /\ rpath = <<>>
    /\ fetches = 0
    /\ last = NoneServed
    /\ prev = NoneServed

(***************************************************************************)
(* History kept for the properties.                                        *)
(***************************************************************************)
\* st: "none" (never set), "live" (set and neither deleted, cleared nor
\* evicted for capacity since), "deleted" (Delete was called since),
\* "gone" (cleared or evicted since); value: the value set, or the value a
\* Delete removed; age: the time since a Set with a TTL returned, counted
\* up to ttl + 1
NoHist == [st |-> "none", value |-> 0, age |-> 0, ttl |-> 0]
HistGone(st) == [NoHist EXCEPT !.st = st]

NoOp == [name |-> "none", key |-> <<>>, hit |-> FALSE, value |-> 0,
         snap |-> NoHist]

GetRec(key, hit, value, snap) ==
    [name |-> "Get", key |-> key, hit |-> hit, value |-> value, snap |-> snap]

\* the keys a step removed from the maps
Removed == {k \in Keys : cache.items[k] # Nil /\ cache'.items[k] = Nil}

inFlight(k) == \E t \in Threads : pc[t] = "getMove" /\ tkey[t] = k

\* an access of key x starts
Accessed(x) ==
    [a \in Keys |-> [b \in Keys |->
        IF a = b THEN FALSE
        ELSE IF a = x THEN ~inFlight(b)
        ELSE IF b = x THEN FALSE
        ELSE defMore[a][b]]]

InitHist ==
    /\ hist = [k \in Keys |-> NoHist]
    /\ defMore = [a \in Keys |-> [b \in Keys |-> FALSE]]
    /\ op = NoOp

(***************************************************************************)
(* Spec: the cache with the history of Sets, Gets and Deletes.             *)
(***************************************************************************)
Get(t, key) ==
    /\ GetStep(t, key)
    /\ op' = GetRec(key, Lookup(key).hit, Lookup(key).value, hist[key])
    /\ UNCHANGED <<hist, defMore>>

GetMoveToFront(t) ==
    /\ GetMoveStep(t)
    /\ op' = NoOp
    /\ UNCHANGED <<hist, defMore>>

Set(t, key, value, ttl) ==
    /\ SetStep(t, key, value, ttl)
    /\ hist' = [k \in Keys |->
                  IF k \in Removed \/ (k = key /\ cache'.items[k] = Nil)
                  THEN HistGone("gone")
                  ELSE IF k = key
                  THEN [st |-> "live", value |-> value, age |-> 0, ttl |-> ttl]
                  ELSE hist[k]]
    /\ op' = NoOp
    /\ UNCHANGED defMore

Delete(t, key) ==
    /\ DeleteStep(t, key)
    /\ hist' = [hist EXCEPT ![key] =
                  [HistGone("deleted") EXCEPT !.value =
                      IF cache.items[key] = Nil THEN 0
                      ELSE cache.val[cache.items[key]].value]]
    /\ op' = NoOp
    /\ UNCHANGED defMore

DeleteExpired(key) ==
    /\ DeleteExpiredStep(key)
    /\ op' = NoOp
    /\ UNCHANGED <<hist, defMore>>

Clear(t) ==
    /\ ClearStep(t)
    /\ hist' = [k \in Keys |->
                  IF getShard(k) = ClearAt(t) /\ hist[k].st = "live"
                  THEN HistGone("gone")
                  ELSE hist[k]]
    /\ op' = NoOp
    /\ UNCHANGED defMore

Sweep(s) ==
    /\ SweepStep(s)
    /\ op' = NoOp
    /\ UNCHANGED <<hist, defMore>>

Tick ==
    /\ TickStep
    /\ hist' = [k \in Keys |->
                  IF hist[k].st = "live" /\ hist[k].ttl > 0 /\ hist[k].age <= hist[k].ttl
                  THEN [hist[k] EXCEPT !.age = @ + 1] ELSE hist[k]]
    /\ op' = NoOp
    /\ UNCHANGED defMore

Init == InitCore /\ InitHist /\ InitPlaylists /\ InitJwt /\ InitServe /\ InitProc

Next ==
    /\ \/ \E t \in Callers, key \in Keys : Get(t, key)
       \/ \E t \in Callers : GetMoveToFront(t)
       \/ \E t \in Callers, key \in Keys, value \in Values, ttl \in TTLs :
             Set(t, key, value, ttl)
       \/ \E t \in Callers, key \in Keys : Delete(t, key)
       \/ \E key \in Keys : DeleteExpired(key)
       \/ \E t \in Callers : Clear(t)
       \/ \E s \in 0..(MaxShards - 1) : Sweep(s)
       \/ Tick
    /\ UNCHANGED <<hlsVars, handlerVars, jwtVars, serveVars, procVars>>

vars == <<cacheVars, hlsVars, handlerVars, jwtVars, serveVars, procVars>>

Spec == Init /\ [][Next]_vars

(***************************************************************************)
(* SpecLRU: concurrent callers of Get, Set, Delete and Clear, with the     *)
(* history of accesses.  No time passes, so nothing expires.               *)
(***************************************************************************)
SetRec(key, evicted) == [name |-> "Set", key |-> key, evicted |-> evicted]

\* the entries a Set of key removed for capacity
Evicted(key) == Removed \cup {k \in {key} : cache'.items[k] = Nil}

LRUGet(t, key) ==
    /\ GetStep(t, key)
    /\ defMore' = IF Lookup(key).hit THEN Accessed(key) ELSE defMore
    /\ op' = NoOp
    /\ UNCHANGED hist

LRUGetMoveToFront(t) ==
    /\ GetMoveStep(t)
    /\ op' = NoOp
    /\ UNCHANGED <<hist, defMore>>

LRUSet(t, key, value, ttl) ==
    /\ SetStep(t, key, value, ttl)
    /\ defMore' = Accessed(key)
    /\ op' = SetRec(key, Evicted(key))
    /\ UNCHANGED hist

LRUDelete(t, key) ==
    /\ DeleteStep(t, key)
    /\ op' = NoOp
    /\ UNCHANGED <<hist, defMore>>

LRUClear(t) ==
    /\ ClearStep(t)
    /\ op' = NoOp
    /\ UNCHANGED <<hist, defMore>>

NextLRU ==
    /\ \/ \E t \in Threads, key \in Keys : LRUGet(t, key)
       \/ \E t \in Threads : LRUGetMoveToFront(t)
       \/ \E t \in Threads, key \in Keys, value \in LRUValues, ttl \in LRUTTLs :
             LRUSet(t, key, value, ttl)
       \/ \E t \in Threads, key \in Keys : LRUDelete(t, key)
       \/ \E t \in Threads : LRUClear(t)
    /\ UNCHANGED <<hlsVars, handlerVars, jwtVars, serveVars, procVars>>

SpecLRU == Init /\ [][NextLRU]_vars

(***************************************************************************)
(* SpecHls: hls.New().Parse of a text, Modifier.Process, Playlist.String   *)
(* and a second hls.New().Parse of what String returned.                   *)
(***************************************************************************)
HlsParse(b) ==
    /\ stage = "new"
    /\ body' = b
    /\ pl' = Parse(NewPlaylist, b).pl
    /\ stage' = IF Parse(NewPlaylist, b).err = ErrNone THEN "parsed" ELSE "failed"
    /\ UNCHANGED <<text, second>>

HlsProcess ==
    /\ stage = "parsed"
    /\ pl' = ModifierProcess(pl, BaseURL, ProxyURL, Options, Token).pl
    /\ stage' = IF ModifierProcess(pl, BaseURL, ProxyURL, Options, Token).err = ErrNone
                THEN "processed" ELSE "failed"
    /\ UNCHANGED <<body, text, second>>

HlsString ==
    /\ stage \in {"parsed", "processed"}
    /\ text' = String(pl)
    /\ stage' = IF stage = "parsed" THEN "serialized" ELSE "rewritten"
    /\ UNCHANGED <<body, pl, second>>

HlsReparse ==
    /\ stage = "serialized"
    /\ second' = Parse(NewPlaylist, text)
    /\ stage' = "reparsed"
    /\ UNCHANGED <<body, pl, text>>

\* Modifier.Process and Playlist.String a second time, on the playlist
\* already rewritten, with the same URLs, options and token
HlsProcessAgain ==
    /\ stage = "rewritten"
    /\ ModifierProcess(pl, BaseURL, ProxyURL, Options, Token).err = ErrNone
    /\ pl' = ModifierProcess(pl, BaseURL, ProxyURL, Options, Token).pl
    /\ text' = String(pl')
    /\ stage' = "rewritten again"
    /\ UNCHANGED <<body, second>>

InitHls == Init /\ opts.ShardSize = 1

NextHls ==
    /\ \/ stage = "new" /\ \E b \in Bodies(MaxLines) : HlsParse(b)
       \/ HlsProcess
       \/ HlsString
       \/ HlsReparse
       \/ HlsProcessAgain
    /\ UNCHANGED <<cacheVars, handlerVars, jwtVars, serveVars, procVars>>

SpecHls == InitHls /\ [][NextHls]_vars

(***************************************************************************)
(* SpecHandler: playlist requests served one after the other by one        *)
(* Handler (internal/proxy/handler.go).                                    *)
(***************************************************************************)
\* handlePlaylist: the origin body goes through the Handler's parser
ServePlaylist(b) ==
    /\ served < MaxRequests
    /\ LET r == ParseAndProcessBytes(hpl, b, BaseURL, ProxyURL, Options, Token)
       IN  /\ hpl' = r.pl
           /\ resp' = [err |-> r.err, text |-> r.text]
    /\ reqBody' = b
    /\ served' = served + 1

NextHandler ==
    /\ \E b \in Bodies(IF served = 0 THEN MaxReqLines ELSE MaxNextLines) : ServePlaylist(b)
    /\ UNCHANGED <<cacheVars, hlsVars, jwtVars, serveVars, procVars>>

SpecHandler == InitHls /\ [][NextHandler]_vars

(***************************************************************************)
(* SpecExtract: Extractor.Extract of a request, and the error response.    *)
(***************************************************************************)
InitRest ==
    InitCore /\ InitHist /\ InitPlaylists /\ InitServe /\ InitProc /\ opts.ShardSize = 1

InitExtract ==
    /\ InitRest
    /\ jcfg = GoodConfig
    /\ jtok = GoodToken
    /\ jreq \in Requests
    /\ jres = NoResult
    /\ now = StartTime
    /\ ticks = 0

\* ServeHTTP up to the return after a failed Extract (handler.go:98)
DoExtract ==
    /\ jres = NoResult
    /\ jres' = [op |-> "Extract", token |-> Extract(jreq).token, err |-> Extract(jreq).err,
                resp |-> IF Extract(jreq).err = NoError THEN NoResult
                         ELSE handleError(Extract(jreq).err, StatusUnauthorized)]
    /\ UNCHANGED <<jcfg, jtok, jreq, now, ticks>>

NextExtract == DoExtract /\ UNCHANGED <<cacheVars, hlsVars, handlerVars, serveVars, procVars>>

SpecExtract == InitExtract /\ [][NextExtract]_vars

(***************************************************************************)
(* SpecVerify: ParseAndVerify of a token under a configuration.            *)
(***************************************************************************)
InitVerify ==
    /\ InitRest
    /\ jcfg \in Configs
    /\ jtok \in Tokens
    /\ jreq = Request(NoHeader, EmptyString)
    /\ jres = NoResult
    /\ now = StartTime
    /\ ticks = 0

DoVerify ==
    /\ jres = NoResult
    /\ jres' = [op |-> "ParseAndVerify", claims |-> ParseAndVerify(jtok, jcfg, now).claims,
                err |-> ParseAndVerify(jtok, jcfg, now).err]
    /\ UNCHANGED <<jcfg, jtok, jreq, now, ticks>>

NextVerify == DoVerify /\ UNCHANGED <<cacheVars, hlsVars, handlerVars, serveVars, procVars>>

SpecVerify == InitVerify /\ [][NextVerify]_vars

(***************************************************************************)
(* SpecJwt: ValidateToken calls for one token on the cache, while time     *)
(* passes and the cache's own goroutines run.                              *)
(***************************************************************************)
TickSteps == {1, ExpiryBuffer, CacheTTL}

InitJwtCache ==
    /\ InitCore /\ InitHist /\ InitPlaylists /\ InitServe /\ InitProc
    /\ jcfg = GoodConfig
    /\ jtok \in TimedTokens
    /\ jreq = Request(NoHeader, EmptyString)
    /\ jres = NoResult
    /\ now = StartTime
    /\ ticks = 0

JwtValidate ==
    LET r == ValidateToken(cache, jcfg, TRUE, jtok, TokenKey(jtok), 1, now)
    IN  /\ \A t \in Threads : pc[t] = "idle"
        /\ r.stale => pendingDel[TokenKey(jtok)] < MaxPending
        /\ cache' = r.cache
        /\ pendingDel' = IF r.stale THEN [pendingDel EXCEPT ![TokenKey(jtok)] = @ + 1]
                         ELSE pendingDel
        /\ jres' = [op |-> "ValidateToken", claims |-> r.claims, err |-> r.err,
                    from |-> r.from, at |-> now]
        /\ UNCHANGED <<opts, shardMask, pc, tkey, telem, tvalue, tclear>>
        /\ UNCHANGED <<hist, defMore, op, jcfg, jtok, jreq, now, ticks>>

JwtTick(d) ==
    /\ ticks < MaxTicks
    /\ ticks' = ticks + 1
    /\ now' = now + d
    /\ cache' = ElapseBy(cache, d)
    /\ UNCHANGED <<opts, shardMask, pc, tkey, telem, tvalue, tclear, pendingDel>>
    /\ UNCHANGED <<hist, defMore, op, jcfg, jtok, jreq, jres>>

JwtDeleteExpired(key) ==
    /\ DeleteExpiredStep(key)
    /\ UNCHANGED <<hist, defMore, op, jwtVars>>

JwtSweep(s) ==
    /\ SweepStep(s)
    /\ UNCHANGED <<hist, defMore, op, jwtVars>>

NextJwt ==
    /\ \/ JwtValidate
       \/ \E d \in TickSteps : JwtTick(d)
       \/ \E key \in Keys : JwtDeleteExpired(key)
       \/ \E s \in 0..(MaxShards - 1) : JwtSweep(s)
    /\ UNCHANGED <<hlsVars, handlerVars, serveVars, procVars>>

SpecJwt == InitJwtCache /\ [][NextJwt]_vars

(***************************************************************************)
(* SpecServe: requests served one after the other by one Handler on the    *)
(* cache it shares with its Validator, while time passes and the cache's   *)
(* own goroutines run.  Every request of a run asks for the same path.     *)
(***************************************************************************)
\* config.Cache.TTLMaster and TTLMedia, in seconds
TTLMaster == 10
TTLMedia == 2

\* config.Origin.BaseURL
OriginBaseURL == URL("http", "origin", TRUE, <<>>, <<>>)

\* a url query parameter that url.Parse rejects, one it parses to a
\* reference without a scheme, and the ones that name the playlist and the
\* segment at the origin
BadTarget == "%zz"
RelativeTarget == "live/master.m3u8"
PlaylistTarget == "http://origin/live/master.m3u8"
SegmentTarget == "http://origin/live/seg.ts"

\* url.Parse of a url query parameter
ParseTarget(targetStr) ==
    CASE targetStr = RelativeTarget ->
             [url |-> URL("", "", FALSE, <<"live", "master.m3u8">>, <<>>), err |-> ErrNone]
      [] targetStr = PlaylistTarget ->
             [url |-> URL("http", "origin", TRUE, <<"live", "master.m3u8">>, <<>>),
              err |-> ErrNone]
      [] targetStr = SegmentTarget ->
             [url |-> URL("http", "origin", TRUE, <<"live", "seg.ts">>, <<>>),
              err |-> ErrNone]
      [] OTHER -> [url |-> EmptyURL, err |-> ErrInvalidTargetURL]

\* the Content-Type values of the responses
ContentTypeJSON == "application/json"
ContentTypeMpegURL == "application/vnd.apple.mpegurl"
ContentTypeOctetStream == "application/octet-stream"

\* the pipeline stages of ServeHTTP
StageCredential == "credential check"
StageTarget == "target resolution"
StageLookup == "cache lookup"
StageFetch == "origin fetch"
StageRewrite == "parse/rewrite"
StageStore == "cache store"
StageResponse == "response"

\* the file names that end in .m3u8, in any case of letters
M3U8Names == {"master.m3u8"}

\* playlist.IsM3U8 of the path of u
IsM3U8(u) == Len(u.Segs) > 0 /\ u.Segs[Len(u.Segs)] \in M3U8Names

\* Handler.getTargetURL
getTargetURL(r, originBaseURL) ==
    IF r.Target # ""
    THEN ParseTarget(r.Target)
    ELSE IF originBaseURL = EmptyURL
    THEN [url |-> EmptyURL, err |-> ErrNoTargetURL]
    ELSE [url |-> ResolveReference(originBaseURL, URL("", "", TRUE, r.Path, <<>>)),
          err |-> ErrNone]

\* the cache key of the content of the run's path for the run's token
ContentKey == SecondKey

\* strings.Contains(string(processedContent), "#EXT-X-STREAM-INF")
ContainsStreamInf(lines) ==
    \E i \in 1..Len(lines) : lines[i].k = "tag" /\ lines[i].Name = TagStreamInf

\* the TTL handlePlaylist stores the processed content with
PlaylistTTL(lines) == IF ContainsStreamInf(lines) THEN TTLMaster ELSE TTLMedia

\* what originClient.Do returns: a response with a status, a Content-Type
\* header and a body, or the error of the transport
OriginResponse(status, contentType, originBody) ==
    [StatusCode |-> status, ContentType |-> contentType, Body |-> originBody, Err |-> "",
     ReadErr |-> FALSE]
TransportError(err) ==
    [StatusCode |-> 0, ContentType |-> "", Body |-> <<>>, Err |-> err, ReadErr |-> FALSE]
\* a response whose body ends in an error of the connection when it is read
UnreadableBody == [OriginResponse(StatusOK, "", <<>>) EXCEPT !.ReadErr = TRUE]
Unreachable == TransportError(ErrOriginUnreachable)
TimedOut == TransportError(ErrHeaderTimeout)

\* api.WriteError
ErrorResponse(e) == Response(e.Status, e.Code, ContentTypeJSON, "", <<>>)

\* what ServeHTTP did: the cache and the parser's playlist afterwards, the
\* keys for which a Get started `go c.Delete(key)`, the stages run, the
\* response, the number of requests sent to the origin and the TTL the
\* content was stored with
Served(c, p, stale, stages, response, fetched, ttl) ==
    [cache |-> c, pl |-> p, stale |-> stale, trace |-> stages, resp |-> response,
     fetched |-> fetched, ttl |-> ttl]

\* ServeHTTP that stores the body of an origin answer of 400 and more
\* under the content key
PipelineStoringErrors(c, p, cacheEnabled, r, origin, stale) ==
    LET target == getTargetURL(r, OriginBaseURL)
        isM3U8 == IsM3U8(target.url)
        looked == IF cacheEnabled /\ IsAbs(target.url) THEN GetCache(c, ContentKey)
                  ELSE [cache |-> c, hit |-> FALSE, stale |-> FALSE, value |-> 0]
        stale2 == stale \cup (IF looked.stale THEN {ContentKey} ELSE {})
        originResp == IF IsAbs(target.url) THEN origin
                      ELSE TransportError(ErrUnsupportedScheme)
        sent == IF IsAbs(target.url) THEN 1 ELSE 0
        processed == ParseAndProcessBytes(p, originResp.Body, target.url,
                                          URL("", "", TRUE, r.Path, <<>>), Options, Token)
        content == IF isM3U8 THEN processed.text ELSE originResp.Body
        contentType == IF isM3U8 /\ originResp.ContentType = "" THEN ContentTypeMpegURL
                       ELSE originResp.ContentType
        ttl == IF isM3U8 THEN PlaylistTTL(content) ELSE TTLMedia
        upto == <<StageCredential, StageTarget>>
                \o (IF cacheEnabled THEN <<StageLookup>> ELSE <<>>)
    IN  IF target.err # ErrNone
        THEN Served(c, p, stale, <<StageCredential, StageTarget, StageResponse>>,
                    ErrorResponse(handleError(ProxyError(target.err), StatusBadRequest)),
                    0, 0)
        ELSE IF looked.hit
        THEN Served(looked.cache, p, stale2, upto \o <<StageResponse>>,
                    Response(StatusOK, "",
                             IF isM3U8 THEN ContentTypeMpegURL ELSE ContentTypeOctetStream,
                             "HIT", looked.value), 0, 0)
        ELSE IF originResp.Err # ""
        THEN Served(looked.cache, p, stale2, upto \o <<StageFetch, StageResponse>>,
                    ErrorResponse(handleError(ProxyError(originResp.Err),
                                              StatusBadGateway)), sent, 0)
        ELSE IF originResp.StatusCode >= 400
        THEN Served(IF cacheEnabled
                    THEN PutCache(looked.cache, ContentKey, originResp.Body, TTLMedia)
                    ELSE looked.cache,
                    p, stale2, upto \o <<StageFetch, StageResponse>>,
                    ErrorResponse(handleError(ProxyError(ErrOriginError),
                                              originResp.StatusCode)), sent, 0)
        ELSE IF originResp.ReadErr
        THEN \* io.ReadAll fails: in ParseAndProcessResponse for a playlist,
             \* in handleRawContent for the rest
             Served(looked.cache, p, stale2,
                    upto \o <<StageFetch>>
                        \o (IF isM3U8 THEN <<StageRewrite>> ELSE <<>>)
                        \o <<StageResponse>>,
                    ErrorResponse(handleError(
                        ProxyError(IF isM3U8 THEN ErrParsingPlaylist
                                   ELSE ErrUnexpectedEOF),
                        StatusInternalServerError)), sent, 0)
        ELSE IF isM3U8 /\ processed.err # ErrNone
        THEN Served(looked.cache, processed.pl, stale2,
                    upto \o <<StageFetch, StageRewrite, StageResponse>>,
                    ErrorResponse(handleError(ProxyError(ErrParsingPlaylist),
                                              StatusInternalServerError)), sent, 0)
        ELSE Served(IF cacheEnabled THEN PutCache(looked.cache, ContentKey, content, ttl)
                    ELSE looked.cache,
                    IF isM3U8 THEN processed.pl ELSE p, stale2,
                    upto \o <<StageFetch>>
                        \o (IF isM3U8 THEN <<StageRewrite>> ELSE <<>>)
                        \o (IF cacheEnabled THEN <<StageStore>> ELSE <<>>)
                        \o <<StageResponse>>,
                    Response(StatusOK, "", contentType, "MISS", content), sent,
                    IF cacheEnabled THEN ttl ELSE 0)

\* ServeHTTP from getTargetURL on, with handlePlaylist and
\* handleRawContent: stale has the cache keys for which the Validator
\* started a delete.  The query of the request is left out of the target.
\* The targets of a run that name the origin have the cache key ContentKey;
\* for a target without a scheme originClient.Do fails before anything is
\* sent, so nothing is ever stored under its key
Pipeline(c, p, cacheEnabled, r, origin, stale) ==
    LET target == getTargetURL(r, OriginBaseURL)
        isM3U8 == IsM3U8(target.url)
        looked == IF cacheEnabled /\ IsAbs(target.url) THEN GetCache(c, ContentKey)
                  ELSE [cache |-> c, hit |-> FALSE, stale |-> FALSE, value |-> 0]
        stale2 == stale \cup (IF looked.stale THEN {ContentKey} ELSE {})
        originResp == IF IsAbs(target.url) THEN origin
                      ELSE TransportError(ErrUnsupportedScheme)
        sent == IF IsAbs(target.url) THEN 1 ELSE 0
        processed == ParseAndProcessBytes(p, originResp.Body, target.url,
                                          URL("", "", TRUE, r.Path, <<>>), Options, Token)
        content == IF isM3U8 THEN processed.text ELSE originResp.Body
        contentType == IF isM3U8 /\ originResp.ContentType = "" THEN ContentTypeMpegURL
                       ELSE originResp.ContentType
        ttl == IF isM3U8 THEN PlaylistTTL(content) ELSE TTLMedia
        upto == <<StageCredential, StageTarget>>
                \o (IF cacheEnabled THEN <<StageLookup>> ELSE <<>>)
    IN  IF target.err # ErrNone
        THEN Served(c, p, stale, <<StageCredential, StageTarget, StageResponse>>,
                    ErrorResponse(handleError(ProxyError(target.err), StatusBadRequest)),
                    0, 0)
        ELSE IF looked.hit
        THEN Served(looked.cache, p, stale2, upto \o <<StageResponse>>,
                    Response(StatusOK, "",
                             IF isM3U8 THEN ContentTypeMpegURL ELSE ContentTypeOctetStream,
                             "HIT", looked.value), 0, 0)
        ELSE IF originResp.Err # ""
        THEN Served(looked.cache, p, stale2, upto \o <<StageFetch, StageResponse>>,
                    ErrorResponse(handleError(ProxyError(originResp.Err),
                                              StatusBadGateway)), sent, 0)
        ELSE IF originResp.StatusCode >= 400
        THEN Served(looked.cache, p, stale2, upto \o <<StageFetch, StageResponse>>,
                    ErrorResponse(handleError(ProxyError(ErrOriginError),
                                              originResp.StatusCode)), sent, 0)
        ELSE IF originResp.ReadErr
        THEN \* io.ReadAll fails: in ParseAndProcessResponse for a playlist,
             \* in handleRawContent for the rest
             Served(looked.cache, p, stale2,
                    upto \o <<StageFetch>>
                        \o (IF isM3U8 THEN <<StageRewrite>> ELSE <<>>)
                        \o <<StageResponse>>,
                    ErrorResponse(handleError(
                        ProxyError(IF isM3U8 THEN ErrParsingPlaylist
                                   ELSE ErrUnexpectedEOF),
                        StatusInternalServerError)), sent, 0)
        ELSE IF isM3U8 /\ processed.err # ErrNone
        THEN Served(looked.cache, processed.pl, stale2,
                    upto \o <<StageFetch, StageRewrite, StageResponse>>,
                    ErrorResponse(handleError(ProxyError(ErrParsingPlaylist),
                                              StatusInternalServerError)), sent, 0)
        ELSE Served(IF cacheEnabled THEN PutCache(looked.cache, ContentKey, content, ttl)
                    ELSE looked.cache,
                    IF isM3U8 THEN processed.pl ELSE p, stale2,
                    upto \o <<StageFetch>>
                        \o (IF isM3U8 THEN <<StageRewrite>> ELSE <<>>)
                        \o (IF cacheEnabled THEN <<StageStore>> ELSE <<>>)
                        \o <<StageResponse>>,
                    Response(StatusOK, "", contentType, "MISS", content), sent,
                    IF cacheEnabled THEN ttl ELSE 0)

\* ServeHTTP without its return after a failed ValidateToken
ServeHTTPUnvalidated(c, p, config, cacheEnabled, r, origin, t) ==
    IF Extract(r).err # NoError
    THEN Served(c, p, {}, <<StageCredential, StageResponse>>,
                ErrorResponse(handleError(Extract(r).err, StatusUnauthorized)), 0, 0)
    ELSE CHOOSE s \in
             {Pipeline(validated.cache, p, cacheEnabled, r, origin,
                       IF validated.stale THEN {TokenKey(token)} ELSE {}) :
                 token \in {Extract(r).token},
                 validated \in {ValidateToken(c, config, cacheEnabled, Extract(r).token,
                                              TokenKey(Extract(r).token), 1, t)}} : TRUE

\* Handler.ServeHTTP at the time t: c is the cache, p the playlist of the
\* Handler's parser, origin what the origin answers if it is asked
ServeHTTP(c, p, config, cacheEnabled, r, origin, t) ==
    IF Extract(r).err # NoError
    THEN Served(c, p, {}, <<StageCredential, StageResponse>>,
                ErrorResponse(handleError(Extract(r).err, StatusUnauthorized)), 0, 0)
    ELSE CHOOSE s \in
             {IF validated.err # NoError
              THEN Served(validated.cache, p,
                          IF validated.stale THEN {TokenKey(token)} ELSE {},
                          <<StageCredential, StageResponse>>,
                          ErrorResponse(handleError(validated.err, StatusUnauthorized)),
                          0, 0)
              ELSE Pipeline(validated.cache, p, cacheEnabled, r, origin,
                            IF validated.stale THEN {TokenKey(token)} ELSE {}) :
                 token \in {Extract(r).token},
                 validated \in {ValidateToken(c, config, cacheEnabled, Extract(r).token,
                                              TokenKey(Extract(r).token), 1, t)}} : TRUE

\* the paths of a playlist and of a segment
PlaylistPath == <<"live", "master.m3u8">>
SegmentPath == <<"live", "seg.ts">>

\* the tokens of a run: one that stays valid, one that expires in 20
\* seconds, one with a forbidden algorithm
ServeTokens ==
    {GoodToken,
     JWT("HS256", "iss1", "p1", AudString("aud1"), Exp(StartTime + 20)),
     JWT("none", "iss1", "p1", AudString("aud1"), Exp(StartTime + CacheTTL + 100))}

\* the requests of a run: no credential, the run's token in the header, a
\* credential of two parts in the header, and the run's token with a url
\* parameter
ServeRequests ==
    {ProxyRequest(NoHeader, EmptyString, rpath, ""),
     ProxyRequest(HeaderValue(BearerPrefix, jtok), EmptyString, rpath, ""),
     ProxyRequest(HeaderValue(BearerPrefix, <<jtok[1], jtok[2]>>), jtok, rpath, ""),
     ProxyRequest(HeaderValue(BearerPrefix, jtok), EmptyString, rpath, BadTarget)}

\* what the origin holds: a master playlist, a media playlist and a text
\* without the header line
OriginBodies ==
    {<<TagLine(TagExtM3U, NoVal),
       TagLine(TagStreamInf, AttrList(<<Attr(AttrBandwidth, IntLit(1000), FALSE)>>)),
       UriLine(RelURI("a"))>>,
     <<TagLine(TagExtM3U, NoVal),
       TagLine(TagInf, InfVal(DecLit(50004, 4), TRUE, "")),
       UriLine(RelURI("a"))>>,
     <<UriLine(RelURI("a"))>>}

Origins == {OriginResponse(StatusOK, "", b) : b \in OriginBodies}
           \cup {OriginResponse(StatusNotFound, "", <<>>), Unreachable, UnreadableBody}

ServeTicks == {1, TTLMaster + 1}

InitServeCache ==
    /\ InitCore /\ InitHist /\ InitPlaylists /\ InitProc
    /\ opts.ShardSize = MaxShardOpt
    /\ jcfg = GoodConfig
    /\ jtok \in ServeTokens
    /\ jreq = Request(NoHeader, EmptyString)
    /\ jres = NoResult
    /\ now = StartTime
    /\ ticks = 0
    /\ enabled \in BOOLEAN
    /\ rpath \in IF enabled THEN {PlaylistPath, SegmentPath} ELSE {PlaylistPath}
    /\ fetches = 0
    /\ last = NoneServed
    /\ prev = NoneServed

\* an answer of the origin that counts as a failure of its host: an error
\* of the transport or a status of 500 and more
OriginFailure(origin) == origin.Err # "" \/ origin.StatusCode >= StatusInternalServerError

\* the number of requests to the origin that failed one after the other, with
\* no success between them and no time passed since, before a request
\* served at the time t and after it
FailedBefore(l, t) == IF l.at = t THEN l.run ELSE 0
FailedRun(l, t, s, origin) ==
    IF s.fetched = 0 THEN FailedBefore(l, t)
    ELSE IF OriginFailure(origin) THEN FailedBefore(l, t) + 1
    ELSE 0

\* one request from its arrival to the end of ServeHTTP
Serve(r, origin) ==
    \E s \in {ServeHTTP(cache, hpl, jcfg, enabled, r, origin, now)} :
        /\ served < MaxServed
        /\ \A t \in Threads : pc[t] = "idle"
        /\ \A key \in s.stale : pendingDel[key] < MaxPending
        /\ cache' = s.cache
        /\ pendingDel' = [key \in Keys |-> IF key \in s.stale THEN pendingDel[key] + 1
                                            ELSE pendingDel[key]]
        /\ hpl' = s.pl
        /\ served' = served + 1
        /\ fetches' = fetches + s.fetched
        /\ last' = [req |-> r, at |-> now, trace |-> s.trace, fetched |-> s.fetched,
                    ttl |-> s.ttl, origin |-> IF s.fetched = 0 THEN NoOrigin ELSE origin,
                    before |-> FailedBefore(last, now),
                    run |-> FailedRun(last, now, s, origin), resp |-> s.resp]
        /\ prev' = last
        /\ UNCHANGED <<opts, shardMask, pc, tkey, telem, tvalue, tclear>>
        /\ UNCHANGED <<hist, defMore, op, reqBody, resp, jwtVars, enabled, rpath, procVars>>

ServeTick(d) ==
    /\ JwtTick(d)
    /\ UNCHANGED <<handlerVars, serveVars, procVars>>

ServeDeleteExpired(key) ==
    /\ JwtDeleteExpired(key)
    /\ UNCHANGED <<handlerVars, serveVars, procVars>>

ServeSweep(s) ==
    /\ JwtSweep(s)
    /\ UNCHANGED <<handlerVars, serveVars, procVars>>

NextServe ==
    /\ \/ served < MaxServed /\ \E r \in ServeRequests, origin \in Origins : Serve(r, origin)
       \/ \E d \in ServeTicks : ServeTick(d)
       \/ \E key \in Keys : ServeDeleteExpired(key)
       \/ \E s \in 0..(MaxShards - 1) : ServeSweep(s)
    /\ UNCHANGED hlsVars

SpecServe == InitServeCache /\ [][NextServe]_vars


(***************************************************************************)
(* SpecParse: Parser.Parse of a text of tag lines and URI lines, by a      *)
(* parser hls.New() made for it.                                           *)
(***************************************************************************)
\* the header, a blank line, the two tags a URI line belongs to, a tag no
\* URI line belongs to, and a URI line
PairingLines ==
    {TagLine(TagExtM3U, NoVal),
     BlankLine,
     TagLine(TagStreamInf, AttrList(<<Attr(AttrBandwidth, IntLit(1000), FALSE)>>)),
     TagLine(TagInf, InfVal(DecLit(50004, 4), TRUE, "")),
     TagLine(TagEndList, NoVal),
     UriLine(RelURI("a"))}

PairingBodies == UNION {[1..m -> PairingLines] : m \in 1..MaxParseLines}

InitParse ==
    /\ InitCore /\ InitHist /\ InitJwt /\ InitServe /\ InitProc
    /\ opts.ShardSize = 1
    /\ stage = "new"
    /\ body \in PairingBodies
    /\ pl = NewPlaylist
    /\ text = <<>>
    /\ second = Ok(NewPlaylist)
    /\ hpl = NewPlaylist
    /\ served = 0
    /\ reqBody = <<>>
    /\ resp = [err |-> ErrNone, text |-> <<>>]

\* hls.New().Parse of the text
ParseBody == HlsParse(body)

NextParse == ParseBody /\ UNCHANGED <<cacheVars, handlerVars, jwtVars, serveVars, procVars>>

SpecParse == InitParse /\ [][NextParse]_vars

(***************************************************************************)
(* SpecOrigin: the requests of one player with a valid token and a url     *)
(* query parameter of any kind, served one after the other while the       *)
(* origin answers with a content type of its own, with an error status or  *)
(* not at all.                                                             *)
(***************************************************************************)
\* config.Origin.RetryCount, the default
RetryCount == 3

\* the status codes of ErrOriginTimeout and ErrCircuitOpen
StatusGatewayTimeout == 504
StatusServiceUnavailable == 503

\* the url query parameter that names the run's path at the origin
RunTarget == IF rpath = PlaylistPath THEN PlaylistTarget ELSE SegmentTarget

OriginRequests ==
    {ProxyRequest(HeaderValue(BearerPrefix, jtok), EmptyString, rpath, targetStr) :
        targetStr \in {"", BadTarget, RelativeTarget, RunTarget}}

\* the Content-Type headers of the origin: none, and the one of a playlist
OriginContentTypes == {"", "application/x-mpegURL"}

OriginAnswers ==
    {OriginResponse(StatusOK, contentType, b) :
        contentType \in OriginContentTypes,
        b \in {<<TagLine(TagExtM3U, NoVal),
                 TagLine(TagStreamInf, AttrList(<<Attr(AttrBandwidth, IntLit(1000), FALSE)>>)),
                 UriLine(RelURI("a"))>>}}
    \cup {OriginResponse(StatusNotFound, "", <<>>),
          OriginResponse(StatusInternalServerError, "", <<>>),
          Unreachable, TimedOut}

InitOrigin ==
    /\ InitCore /\ InitHist /\ InitPlaylists /\ InitProc
    /\ opts.ShardSize = MaxShardOpt
    /\ jcfg = GoodConfig
    /\ jtok = GoodToken
    /\ jreq = Request(NoHeader, EmptyString)
    /\ jres = NoResult
    /\ now = StartTime
    /\ ticks = 0
    /\ enabled \in BOOLEAN
    /\ rpath \in {PlaylistPath, SegmentPath}
    /\ fetches = 0
    /\ last = NoneServed
    /\ prev = NoneServed

NextOrigin ==
    /\ \/ served < MaxServed
          /\ \E r \in OriginRequests, origin \in OriginAnswers : Serve(r, origin)
       \/ \E d \in ServeTicks : ServeTick(d)
       \/ \E key \in Keys : ServeDeleteExpired(key)
       \/ \E s \in 0..(MaxShards - 1) : ServeSweep(s)
    /\ UNCHANGED hlsVars

SpecOrigin == InitOrigin /\ [][NextOrigin]_vars

(***************************************************************************)
(* SpecTrack: the goroutines of requests that are in ServeHTTP at the same *)
(* time, from the validated token over the call of the player tracker to   *)
(* the rest of the pipeline.                                               *)
(***************************************************************************)
\* Tracker.players[playerID].ActivityCount is counted up to this
MaxActivity == 3

InitTrack ==
    /\ InitCore /\ InitHist /\ InitPlaylists /\ InitJwt /\ InitServe
    /\ opts.ShardSize = 1
    /\ tracker \in BOOLEAN
    /\ rpc = [r \in Reqs |-> "arrived"]
    /\ rid \in [Reqs -> PlayerIDs]
    /\ mu = 0
    /\ players = [id \in PlayerIDs \ {""} |-> 0]
    /\ phase = "serving"
    /\ accepting = TRUE
    /\ active = 0
    /\ elapsed = 0
    /\ exitCode = -1
    /\ InitRoute /\ InitLife /\ InitTrip /\ InitCross

\* ServeHTTP up to the test before the tracker call (handler.go:119)
Validated(r) ==
    /\ rpc[r] = "arrived"
    /\ rpc' = [rpc EXCEPT ![r] = IF tracker /\ rid[r] # "" THEN "track" ELSE "resolve"]
    /\ UNCHANGED <<tracker, rid, mu, players>>

\* TrackPlayer called by the goroutine of the request: t.mu.Lock()
TrackPlayerLock(r) ==
    /\ rpc[r] = "track"
    /\ mu = 0
    /\ mu' = r
    /\ rpc' = [rpc EXCEPT ![r] = "locked"]
    /\ UNCHANGED <<tracker, rid, players>>

\* TrackPlayer from the lock to the deferred Unlock
TrackPlayer(r) ==
    /\ rpc[r] = "locked"
    /\ mu = r
    /\ players' = [players EXCEPT ![rid[r]] = IF @ < MaxActivity THEN @ + 1 ELSE @]
    /\ mu' = 0
    /\ rpc' = [rpc EXCEPT ![r] = "resolve"]
    /\ UNCHANGED <<tracker, rid>>

\* ServeHTTP from getTargetURL to the response
Respond(r) ==
    /\ rpc[r] = "resolve"
    /\ rpc' = [rpc EXCEPT ![r] = "done"]
    /\ UNCHANGED <<tracker, rid, mu, players>>

\* the connection of a request that is done sends the next request
NextRequest(r) ==
    /\ rpc[r] = "done"
    /\ rpc' = [rpc EXCEPT ![r] = "arrived"]
    /\ UNCHANGED <<tracker, rid, mu, players>>

NextTrack ==
    /\ \/ \E r \in Reqs : Validated(r)
       \/ \E r \in Reqs : TrackPlayerLock(r)
       \/ \E r \in Reqs : TrackPlayer(r)
       \/ \E r \in Reqs : Respond(r)
       \/ \E r \in Reqs : NextRequest(r)
    /\ UNCHANGED <<cacheVars, hlsVars, handlerVars, jwtVars, serveVars, shutdownVars>>
    /\ UNCHANGED <<routeVars, lifeVars, tripVars, crossVars>>

SpecTrack == InitTrack /\ [][NextTrack]_vars

(***************************************************************************)
(* SpecShutdown: main from the started server to the end of the process,   *)
(* with the requests the http.Server has in flight.  Server.Shutdown is    *)
(* modelled as net/http documents it: it closes the listeners, returns nil *)
(* once no connection is active and the error of the context once the      *)
(* context is done.                                                        *)
(***************************************************************************)
\* config.Server.ShutdownTimeout, in steps of the clock
ShutdownTimeout == 2

InitShutdown ==
    /\ InitCore /\ InitHist /\ InitPlaylists /\ InitJwt /\ InitServe /\ InitProc
    /\ opts.ShardSize \in ShardSizeOpts

\* MemoryCache.Clear run with no other goroutine between its shards
RECURSIVE ClearFrom(_, _)
ClearFrom(c, s) == IF s >= NumShards THEN c ELSE ClearFrom(ClearShard(c, s), s + 1)

\* the listener accepts a connection and its request starts
Accept ==
    /\ exitCode = -1
    /\ accepting
    /\ active < MaxInFlight
    /\ active' = active + 1
    /\ UNCHANGED <<cacheVars, phase, accepting, elapsed, exitCode>>

\* a request in flight ends, having stored its content under the key
Finish(key) ==
    /\ exitCode = -1
    /\ active > 0
    /\ active' = active - 1
    /\ cache' = PutCache(cache, key, 1, 0)
    /\ UNCHANGED <<opts, shardMask, pc, tkey, telem, tvalue, tclear, pendingDel>>
    /\ UNCHANGED <<phase, accepting, elapsed, exitCode>>

\* WaitForShutdown receives SIGINT or SIGTERM and calls Server.Stop, whose
\* Shutdown closes the listener
WaitForShutdown ==
    /\ phase = "serving"
    /\ phase' = "stopping"
    /\ accepting' = FALSE
    /\ elapsed' = 0
    /\ UNCHANGED <<cacheVars, active, exitCode>>

\* time passes while Shutdown waits, up to the deadline of its context
ShutdownTick ==
    /\ phase = "stopping"
    /\ elapsed < ShutdownTimeout
    /\ elapsed' = elapsed + 1
    /\ UNCHANGED <<cacheVars, phase, accepting, active, exitCode>>

\* Server.Stop returns nil and WaitForShutdown returns to main
StopReturns ==
    /\ phase = "stopping"
    /\ active = 0
    /\ phase' = "drained"
    /\ UNCHANGED <<cacheVars, accepting, active, elapsed, exitCode>>

\* WaitForShutdown without the os.Exit(1) after an error of Server.Stop
StopTimesOutDrained ==
    /\ phase = "stopping"
    /\ elapsed = ShutdownTimeout
    /\ phase' = "drained"
    /\ UNCHANGED <<cacheVars, accepting, active, elapsed, exitCode>>

\* Server.Stop returns the error of the context and WaitForShutdown calls
\* os.Exit(1)
StopTimesOut ==
    /\ phase = "stopping"
    /\ elapsed = ShutdownTimeout
    /\ phase' = "exited"
    /\ exitCode' = 1
    /\ UNCHANGED <<cacheVars, accepting, active, elapsed>>

\* main after WaitForShutdown: cacheImpl.Clear() and the return
Cleanup ==
    /\ phase = "drained"
    /\ cache' = Collect(ClearFrom(cache, 0), Held)
    /\ phase' = "complete"
    /\ exitCode' = 0
    /\ UNCHANGED <<opts, shardMask, pc, tkey, telem, tvalue, tclear, pendingDel>>
    /\ UNCHANGED <<accepting, active, elapsed>>

NextShutdown ==
    /\ \/ Accept
       \/ \E key \in Keys : Finish(key)
       \/ WaitForShutdown
       \/ ShutdownTick
       \/ StopReturns
       \/ StopTimesOut
       \/ Cleanup
    /\ UNCHANGED <<hist, defMore, op, hlsVars, handlerVars, jwtVars, serveVars, trackVars>>
    /\ UNCHANGED <<routeVars, lifeVars, tripVars, crossVars>>

SpecShutdown == InitShutdown /\ [][NextShutdown]_vars

(***************************************************************************)
(* SpecSweep: concurrent callers of Get, Set and Clear on one key with a   *)
(* TTL, the background deletes, the sweep and the clock.                   *)
(***************************************************************************)
SweepKeys == {<<96 + 1>>}
SweepTTLs == {1}

InitSweep == Init /\ opts.ShardSize = 1

NextSweep ==
    /\ \/ \E t \in Threads, key \in SweepKeys : Get(t, key)
       \/ \E t \in Threads : GetMoveToFront(t)
       \/ \E t \in Threads, key \in SweepKeys, value \in LRUValues, ttl \in SweepTTLs :
             Set(t, key, value, ttl)
       \/ \E key \in Keys : DeleteExpired(key)
       \/ \E t \in Threads : Clear(t)
       \/ \E s \in 0..(MaxShards - 1) : Sweep(s)
       \/ Tick
    /\ UNCHANGED <<hlsVars, handlerVars, jwtVars, serveVars, procVars>>

SpecSweep == InitSweep /\ [][NextSweep]_vars

(***************************************************************************)
(* SpecRoute: getShard of a cache made with any configured shard count,    *)
(* called for one key after the other.                                     *)
(***************************************************************************)
\* the largest MemoryOptions.ShardSize of a run
MaxShardCount == 8

\* the keys routed: "a", "b", "c" and "ab"
RouteKeys == {<<97>>, <<98>>, <<99>>, <<97, 98>>}

InitRouting ==
    /\ InitCore /\ InitHist /\ InitPlaylists /\ InitJwt /\ InitServe
    /\ opts.ShardSize = 1
    /\ tracker = FALSE
    /\ rpc = [r \in Reqs |-> "arrived"]
    /\ rid = [r \in Reqs |-> ""]
    /\ mu = 0
    /\ players = [id \in PlayerIDs \ {""} |-> 0]
    /\ phase = "serving"
    /\ accepting = TRUE
    /\ active = 0
    /\ elapsed = 0
    /\ exitCode = -1
    /\ InitLife /\ InitTrip /\ InitCross
    /\ shardCount \in 0..MaxShardCount
    /\ routed = {}

\* c.getShard(key) of the cache NewMemoryWithOptions made for shardCount
Route(key) ==
    /\ routed' = routed \cup
          {<<key, ShardIndex(key, NewShardMask([MaxSize |-> 0, ShardSize |-> shardCount]))>>}
    /\ UNCHANGED shardCount

NextRoute ==
    /\ \E key \in RouteKeys : Route(key)
    /\ UNCHANGED <<cacheVars, hlsVars, handlerVars, jwtVars, serveVars>>
    /\ UNCHANGED <<trackVars, shutdownVars, lifeVars, tripVars, crossVars>>

SpecRoute == InitRouting /\ [][NextRoute]_vars

(***************************************************************************)
(* SpecLife: Server.Start and Server.Stop (server.go), called by several   *)
(* goroutines.  Each of the two works under s.mu first and without it      *)
(* after.                                                                  *)
(***************************************************************************)
\* what Start and Stop return
ErrAlreadyStarted == "server already started"
ErrNotStarted == "server not started"
ErrAlreadyStopped == "server already stopped"
ErrListen == "failed to create listener"

InitLifecycle ==
    /\ InitCore /\ InitHist /\ InitPlaylists /\ InitJwt /\ InitServe
    /\ opts.ShardSize = 1
    /\ InitProc

\* a nil pointer dereference ends the process
Running == shutdownOn # "nil"

\* Start (server.go:42), from s.mu.Lock() to s.mu.Unlock()
StartLock(g) ==
    /\ Running
    /\ lpc[g] = "idle"
    /\ IF started
       THEN /\ lres' = [lres EXCEPT ![g] = ErrAlreadyStarted]
            /\ UNCHANGED <<started, lpc>>
       ELSE /\ started' = TRUE
            /\ lpc' = [lpc EXCEPT ![g] = "create"]
            /\ lres' = [lres EXCEPT ![g] = "none"]
    /\ UNCHANGED <<stopped, httpServer, shutdownOn>>

\* Start after the unlock: s.server = &http.Server{...}, net.Listen, which
\* fails or not, and the goroutine that serves
StartCreate(g, listening) ==
    /\ Running
    /\ lpc[g] = "create"
    /\ httpServer' = g
    /\ lres' = [lres EXCEPT ![g] = IF listening THEN "nil" ELSE ErrListen]
    /\ lpc' = [lpc EXCEPT ![g] = "idle"]
    /\ UNCHANGED <<started, stopped, shutdownOn>>

\* Stop (server.go:88), from s.mu.Lock() to s.mu.Unlock()
StopLock(g) ==
    /\ Running
    /\ lpc[g] = "idle"
    /\ IF ~started
       THEN /\ lres' = [lres EXCEPT ![g] = ErrNotStarted]
            /\ UNCHANGED <<stopped, lpc>>
       ELSE IF stopped
       THEN /\ lres' = [lres EXCEPT ![g] = ErrAlreadyStopped]
            /\ UNCHANGED <<stopped, lpc>>
       ELSE /\ stopped' = TRUE
            /\ lpc' = [lpc EXCEPT ![g] = "shutdown"]
            /\ lres' = [lres EXCEPT ![g] = "none"]
    /\ UNCHANGED <<started, httpServer, shutdownOn>>

\* what a read of s.server by g can give: the write of Start is made and
\* the read of Stop is done without s.mu, so the write of another goroutine
\* is seen or not
ServerSeen(g) ==
    IF httpServer = 0 THEN {0}
    ELSE IF httpServer = g THEN {httpServer}
    ELSE {0, httpServer}

\* Stop after the unlock: s.server.Shutdown(ctx)
StopShutdown(g, seen) ==
    /\ Running
    /\ lpc[g] = "shutdown"
    /\ seen \in ServerSeen(g)
    /\ shutdownOn' = IF seen = 0 THEN "nil" ELSE "server"
    /\ lres' = [lres EXCEPT ![g] = IF seen = 0 THEN "panic" ELSE "nil"]
    /\ lpc' = [lpc EXCEPT ![g] = "idle"]
    /\ UNCHANGED <<started, stopped, httpServer>>

NextLife ==
    /\ \/ \E g \in Goroutines : StartLock(g)
       \/ \E g \in Goroutines, listening \in BOOLEAN : StartCreate(g, listening)
       \/ \E g \in Goroutines : StopLock(g)
       \/ \E g \in Goroutines, seen \in 0..NumGoroutines : StopShutdown(g, seen)
    /\ UNCHANGED <<cacheVars, hlsVars, handlerVars, jwtVars, serveVars>>
    /\ UNCHANGED <<trackVars, shutdownVars, routeVars, tripVars, crossVars>>

SpecLife == InitLifecycle /\ [][NextLife]_vars

(***************************************************************************)
(* SpecTrip: a URI of a master playlist fetched from a base URL is         *)
(* rewritten, and the proxy gets a request for the rewritten URI.          *)
(***************************************************************************)
\* Handler.getTargetURL for the request a client sends for the URI u: the
\* url parameter of its query if it has one, else its path and query at the
\* origin base URL
getTargetURLOf(u, originBaseURL) ==
    LET isTarget(kv) == kv[1] = "url"
        given == SelectSeq(u.Query, isTarget)
    IN  IF Len(given) > 0
        THEN [url |-> ParseURL(QueryUnescape(given[1][2])), err |-> ErrNone]
        ELSE IF originBaseURL = EmptyURL
        THEN [url |-> EmptyURL, err |-> ErrNoTargetURL]
        ELSE [url |-> ResolveReference(originBaseURL,
                                       URL("", "", TRUE, u.Segs, u.Query)),
              err |-> ErrNone]

\* the variant URIs: a name, a rooted path, a URL at another host and a name
\* with a query
TripURIs ==
    {RelURI("v.m3u8"),
     URL("", "", TRUE, <<"alt", "v.m3u8">>, <<>>),
     AbsURI("v.m3u8"),
     URL("", "", FALSE, <<"v.m3u8">>, <<<<"q", "1">>>>)}

\* the targets the master playlist was fetched from
TripBases == {BaseURL, URL("http", "origin", TRUE, <<"vod", "master.m3u8">>, <<>>)}

\* the proxy URLs: "/", "/hls" and the path of the playlist's request
TripProxies ==
    {URL("", "", TRUE, <<>>, <<>>),
     URL("", "", TRUE, <<"hls">>, <<>>),
     URL("", "", TRUE, <<"live", "master.m3u8">>, <<>>)}

TripTokens == {"T", "U"}

InitTripRun ==
    /\ InitCore /\ InitHist /\ InitPlaylists /\ InitJwt /\ InitServe
    /\ opts.ShardSize = 1
    /\ tracker = FALSE
    /\ rpc = [r \in Reqs |-> "arrived"]
    /\ rid = [r \in Reqs |-> ""]
    /\ mu = 0
    /\ players = [id \in PlayerIDs \ {""} |-> 0]
    /\ phase = "serving"
    /\ accepting = TRUE
    /\ active = 0
    /\ elapsed = 0
    /\ exitCode = -1
    /\ InitRoute /\ InitLife /\ InitCross
    /\ trip \in {[NoTrip EXCEPT !.phase = "fetched", !.uri = u, !.base = b,
                                !.proxy = p, !.usePathParam = e, !.token = t] :
                    u \in TripURIs, b \in TripBases, p \in TripProxies,
                    e \in BOOLEAN, t \in TripTokens}

\* MasterProcessor.processVariant on the URI
Rewrite ==
    /\ trip.phase = "fetched"
    /\ trip' = [trip EXCEPT
                  !.phase = "rewritten",
                  !.rewritten =
                      proxyURI(trip.base, trip.proxy,
                               [Options EXCEPT !.UsePathParam = trip.usePathParam],
                               trip.uri, trip.token)]

\* the target resolution of the request for the rewritten URI
RequestRewritten ==
    /\ trip.phase = "rewritten"
    /\ LET target == getTargetURLOf(trip.rewritten, OriginBaseURL)
       IN  trip' = [trip EXCEPT !.phase = "resolved", !.target = target.url,
                                !.err = target.err]

NextTrip ==
    /\ \/ Rewrite
       \/ RequestRewritten
    /\ UNCHANGED <<cacheVars, hlsVars, handlerVars, jwtVars, serveVars>>
    /\ UNCHANGED <<trackVars, shutdownVars, routeVars, lifeVars, crossVars>>

SpecTrip == InitTripRun /\ [][NextTrip]_vars

(***************************************************************************)
(* SpecCross: playlist requests with one token or another, served one      *)
(* after the other by one Handler.                                         *)
(***************************************************************************)
\* handlePlaylist for a request with the token: the origin body goes
\* through the Handler's parser and is rewritten with the token
ServePlaylistFor(b, token) ==
    /\ served < MaxServed
    /\ LET r == ParseAndProcessBytes(hpl, b, BaseURL, ProxyURL, Options, token)
       IN  /\ hpl' = r.pl
           /\ resp' = [err |-> r.err, text |-> r.text]
    /\ reqBody' = b
    /\ served' = served + 1
    /\ rtoken' = token
    /\ alone' = [t \in CrossTokens |->
                   ParseAndProcessBytes(alone[t].pl, b, BaseURL, ProxyURL, Options, t)]

NextCross ==
    /\ \E b \in OriginBodies, token \in CrossTokens : ServePlaylistFor(b, token)
    /\ UNCHANGED <<cacheVars, hlsVars, jwtVars, serveVars>>
    /\ UNCHANGED <<trackVars, shutdownVars, routeVars, lifeVars, tripVars>>

SpecCross == InitHls /\ [][NextCross]_vars

(***************************************************************************)
(* Properties of the memory cache.                                         *)
(***************************************************************************)
\* C1: after Set(K,V,d) with d > 0 returned and K was neither overwritten,
\* deleted, cleared nor evicted since, a Get(K) at an age strictly inside
\* (0, d) is a hit that returns V, and a Get(K) at an age above d is a miss.
C1_TTLContract ==
    (op.name = "Get" /\ op.snap.st = "live" /\ op.snap.ttl > 0) =>
        /\ (0 < op.snap.age /\ op.snap.age < op.snap.ttl) =>
               (op.hit /\ op.value = op.snap.value)
        /\ (op.snap.age > op.snap.ttl) => ~op.hit

\* C2: a Get of a key returns the value of the latest Set of that key that
\* completed before it, and misses only if that entry expired, was deleted,
\* cleared or evicted, or the key was never set.
C2_GetObservesLatestSet ==
    (op.name = "Get") =>
        /\ op.hit => (op.snap.st = "live" /\ op.value = op.snap.value)
        /\ ~op.hit => \/ op.snap.st # "live"
                      \/ (op.snap.ttl > 0 /\ op.snap.age > op.snap.ttl)

\* C3: between operations the number of items held across all shards is at
\* most the configured MaxSize.
C3_SizeWithinMaxSize == Size <= OptMaxSize(opts)

\* C4: an entry a Set evicts was not accessed more recently than an entry
\* that stays in the cache.
C4_EvictsLeastRecent ==
    (op.name = "Set") =>
        \A e \in op.evicted : \A y \in Keys :
            (y # e /\ cache.items[y] # Nil) => ~defMore[e][y]

\* C5: a Get(K) that follows Delete(K) with no Set(K) in between misses, and
\* Delete of a key that is absent leaves the cache as it is.
C5_DeleteThenMiss ==
    /\ (op.name = "Get" /\ op.snap.st = "deleted") => ~op.hit
    /\ \A k \in Keys :
          cache.items[k] = Nil => Collect(DeleteCache(cache, k), Held) = cache

\* C5 witness: a Get that missed after a Delete removed a stored value, with
\* another key still stored
C5_Witness ==
    /\ op.name = "Get" /\ op.snap.st = "deleted" /\ op.snap.value > 0
    /\ ~op.hit
    /\ \E k \in Keys : cache.items[k] # Nil

(***************************************************************************)
(* Properties of the playlist pipeline.                                    *)
(***************************************************************************)
\* what a Handler that served nothing before answers to body b
FreshResponse(b) ==
    LET r == ParseAndProcessBytes(NewPlaylist, b, BaseURL, ProxyURL, Options, Token)
    IN  [err |-> r.err, text |-> r.text]

\* C6: the response to a playlist request is built from that request's
\* origin body alone: it is what a Handler that served no request before
\* answers to the same body.
C6_ParseTreePerRequest == (served > 0) => (resp = FreshResponse(reqBody))

isTagLine(line) == line.k = "tag"

\* a tag line with the URIs among its attribute values blanked
StripURIs(line) ==
    IF line.Value.t # "attrs" THEN line
    ELSE TagLine(line.Name,
                 AttrList([i \in 1..Len(line.Value.list) |->
                     IF line.Value.list[i].val.t = "url"
                     THEN [line.Value.list[i] EXCEPT !.val = UrlVal(EmptyURL)]
                     ELSE line.Value.list[i]]))

\* the tag lines of a text, in order, without their URIs
TagLinesOf(lines) ==
    LET tags == SelectSeq(lines, isTagLine)
    IN  [i \in 1..Len(tags) |-> StripURIs(tags[i])]

\* C7: parse, rewrite and serialize change only URIs: the tag lines of the
\* output are the tag lines of the input, each once, in the same order and
\* with the same attributes.
C7_OnlyURIsChange ==
    (stage = "rewritten") => (TagLinesOf(text) = TagLinesOf(body))

\* C8: parsing the serialized form of an accepted playlist with a fresh
\* parser gives the same variants, segments, target duration, sequence
\* numbers, end-list, allow-cache and playlist type.
C8_RoundTrip ==
    (stage = "reparsed") =>
        /\ second.err = ErrNone
        /\ second.pl.Master.Variants = pl.Master.Variants
        /\ second.pl.Media.Segments = pl.Media.Segments
        /\ second.pl.Media.TargetDuration = pl.Media.TargetDuration
        /\ second.pl.Media.MediaSequence = pl.Media.MediaSequence
        /\ second.pl.Media.DiscontinuitySeq = pl.Media.DiscontinuitySeq
        /\ second.pl.Media.EndList = pl.Media.EndList
        /\ second.pl.Media.AllowCache = pl.Media.AllowCache
        /\ second.pl.Media.PlaylistType = pl.Media.PlaylistType

\* the non-empty URIs a tag line carries in its URI attribute
AttrURIs(line) ==
    IF line.Value.t # "attrs" THEN {}
    ELSE {line.Value.list[i].val.u : i \in
            {j \in 1..Len(line.Value.list) :
                /\ line.Value.list[j].key = AttrURI
                /\ line.Value.list[j].val.t = "url"
                /\ line.Value.list[j].val.u # EmptyURL}}

\* the URIs of the tag lines named in names
TagURIs(lines, names) ==
    UNION {AttrURIs(lines[i]) : i \in {j \in 1..Len(lines) :
                                         lines[j].k = "tag" /\ lines[j].Name \in names}}

\* the URIs of the URI lines
LineURIs(lines) == {lines[i].uri : i \in {j \in 1..Len(lines) : lines[j].k = "uri"}}

CarriesToken(u) ==
    \E i \in 1..Len(u.Query) : u.Query[i] = <<Options.TokenParamName, Token>>

\* u names the proxy: no other host, and a path under the proxy's path
PointsAtProxy(u) ==
    /\ u.Host \in {"", ProxyURL.Host}
    /\ u.Rooted
    /\ Len(u.Segs) >= Len(ProxyURL.Segs)
    /\ SubSeq(u.Segs, 1, Len(ProxyURL.Segs)) = ProxyURL.Segs

\* u is resolved against the base URL
ResolvedAtOrigin(u) == u.Scheme = BaseURL.Scheme /\ u.Host = BaseURL.Host /\ u.Rooted

\* C9: in the output for a Master playlist every variant URI line, every
\* EXT-X-I-FRAME-STREAM-INF URI and every EXT-X-MEDIA URI points at the
\* proxy and carries the token.
C9_MasterURIsAtProxy ==
    (stage = "rewritten" /\ pl.Type = PlaylistTypeMaster) =>
        \A u \in LineURIs(text) \cup TagURIs(text, {TagIFrameStreamInf, TagMedia}) :
            PointsAtProxy(u) /\ CarriesToken(u)

\* C10: in the output for a Media playlist every EXT-X-KEY URI and every
\* EXT-X-MAP URI is resolved against the base URL and carries the token.
C10_KeyAndMapRewritten ==
    (stage = "rewritten" /\ pl.Type = PlaylistTypeMedia) =>
        \A u \in TagURIs(text, {TagKey, TagMap}) :
            ResolvedAtOrigin(u) /\ CarriesToken(u)

\* C11: after one rewrite of a Master playlist with the token, every
\* variant URI has the proxy's scheme, the proxy's host and the proxy's
\* path, and its query holds token=T.
C11_VariantURIIsProxyURL ==
    (stage \in {"processed", "rewritten"} /\ pl.Type = PlaylistTypeMaster) =>
        \A i \in 1..Len(pl.Master.Variants) :
            LET u == pl.Master.Variants[i].URI
            IN  /\ u.Scheme = ProxyURL.Scheme
                /\ u.Host = ProxyURL.Host
                /\ u.Rooted = ProxyURL.Rooted
                /\ u.Segs = ProxyURL.Segs
                /\ CarriesToken(u)

\* C12: rewriting a rewritten Master playlist again with the same token,
\* base URL, proxy URL and options leaves the serialized form as it was.
C12_RewriteIdempotent ==
    [][(stage = "rewritten" /\ stage' = "rewritten again"
            /\ pl.Type = PlaylistTypeMaster) => (text' = text)]_vars

\* the segments of the playlist as Parse left them, before the rewrite
InputSegments == Parse(NewPlaylist, body).pl.Media.Segments

HeaderFirst(lines) ==
    LET nonBlank == {i \in 1..Len(lines) : lines[i].k # "blank"}
    IN  \A i \in nonBlank :
            (\A j \in nonBlank : i <= j) => lines[i] = TagLine(TagExtM3U, NoVal)

HasLine(lines) == \E i \in 1..Len(lines) : lines[i].k # "blank"

\* C14: Parse of a text whose first non-blank line is not #EXTM3U fails
\* with the missing-header error, also when blank lines come before it.
C14_HeaderRequired ==
    (stage # "new" /\ HasLine(body) /\ ~HeaderFirst(body)) =>
        /\ stage = "failed"
        /\ Parse(NewPlaylist, body).err = ErrPlaylistHeader

(***************************************************************************)
(* Properties of the credential check.                                     *)
(***************************************************************************)
\* what the header yields once a leading "Bearer " or "JWT " is cut off
HeaderCandidate(r) ==
    IF r.Header.prefix \in {"Bearer ", "JWT "} THEN r.Header.tok
    ELSE WithPrefix(r.Header.prefix, r.Header.tok)

\* the candidate: the header's if it is not empty, else the query parameter's
Candidate(r) == IF HeaderCandidate(r) # EmptyString THEN HeaderCandidate(r) ELSE r.Query

ThreeParts(s) == Len(s) = 3 /\ s[1] # EmptyPart /\ s[2] # EmptyPart /\ s[3] # EmptyPart

\* C15: the header is consulted first, without its Bearer or JWT prefix,
\* then the query parameter; when neither yields a non-empty value the
\* request fails with the missing-credential error and status 401; a
\* candidate that is not three non-empty parts fails with the
\* malformed-credential error, status 401 and code token_error; any other
\* candidate is the extracted token.
C15_Extraction ==
    (jres.op = "Extract") =>
        IF Candidate(jreq) = EmptyString
        THEN /\ jres.err.Err = <<ErrTokenRequired>>
             /\ jres.resp.Status = 401
        ELSE IF ~ThreeParts(Candidate(jreq))
        THEN /\ jres.err.Err = <<ErrTokenInvalid>>
             /\ jres.resp.Status = 401
             /\ jres.resp.Code = "token_error"
        ELSE /\ jres.err = NoError
             /\ jres.token = Candidate(jreq)

\* the check a token is expected to fail first, in the order algorithm,
\* required claims, expiry, issuer, audience; ErrNone when it passes all
FirstFailure(tok, cfg, t) ==
    LET alg == tok[1].alg
        p == tok[2]
        present(c) == IF c = "sub" THEN p.sub # ""
                      ELSE IF c = "iss" THEN p.iss # ""
                      ELSE IF c = "aud" THEN p.aud # NoAud
                      ELSE p.exp.has
        audOk == \/ p.aud.t = "string" /\ p.aud.s = cfg.Audience
                 \/ p.aud.t = "list" /\ \E i \in 1..Len(p.aud.l) : p.aud.l[i] = cfg.Audience
    IN  IF cfg.AllowedAlgs # <<>> /\ \A i \in 1..Len(cfg.AllowedAlgs) : cfg.AllowedAlgs[i] # alg
        THEN ErrInvalidAlgorithm
        ELSE IF \E i \in 1..Len(cfg.RequiredClaims) : ~present(cfg.RequiredClaims[i])
        THEN ErrMissingClaim
        ELSE IF p.exp.has /\ p.exp.n < t THEN ErrTokenExpired
        ELSE IF cfg.Issuer # "" /\ p.iss # "" /\ p.iss # cfg.Issuer THEN ErrInvalidIssuer
        ELSE IF cfg.Audience # "" /\ ~audOk THEN ErrInvalidAudience
        ELSE ErrNone

\* C16: ParseAndVerify rejects a token with the error of the first check
\* it fails in the order algorithm allow-list, required claims, expiry,
\* issuer, audience, and accepts a token that passes all of them.
C16_ChecksInOrder ==
    (jres.op = "ParseAndVerify") => (jres.err = FirstFailure(jtok, jcfg, now))

\* the cache entry of the run's token is there and not expired
VerdictLive ==
    /\ cache.items[FirstKey] # Nil
    /\ ~isExpired(cache.val[cache.items[FirstKey]])

\* C17: a live cache entry for the verdict of a token with an exp claim
\* expires, not later than exp - 30s and not later than the ceiling after
\* it was stored.
C17_VerdictTTL ==
    (VerdictLive /\ jtok[2].exp.has) =>
        LET item == cache.val[cache.items[FirstKey]]
        IN  /\ item.hasExpiry
            /\ item.expiry <= CacheTTL
            /\ now + item.expiry <= jtok[2].exp.n - ExpiryBuffer

\* C18: ValidateToken does not return success for a token whose exp is
\* earlier than the time of the call, from the cache or not, and a cached
\* verdict found stale is gone from the cache.
C18_NoSuccessAfterExp ==
    (jres.op = "ValidateToken") =>
        /\ (jres.err = NoError) => ~(jtok[2].exp.has /\ jtok[2].exp.n < jres.at)
        /\ (jres.from = "cache" /\ jres.err # NoError) => cache.items[FirstKey] = Nil


(***************************************************************************)
(* Properties of the request pipeline.                                     *)
(***************************************************************************)
Pipeline7 ==
    <<StageCredential, StageTarget, StageLookup, StageFetch, StageRewrite, StageStore,
      StageResponse>>

StageIndex(stage_) == CHOOSE i \in 1..Len(Pipeline7) : Pipeline7[i] = stage_

\* the stages were run in the order of the pipeline, none twice, from the
\* credential check to the response
InPipelineOrder(stages) ==
    /\ \A i \in 1..Len(stages) : \E j \in 1..Len(Pipeline7) : stages[i] = Pipeline7[j]
    /\ \A i, j \in 1..Len(stages) : i < j => StageIndex(stages[i]) < StageIndex(stages[j])
    /\ stages # <<>> => stages[1] = StageCredential /\ stages[Len(stages)] = StageResponse

Ran(stages, stage_) == \E i \in 1..Len(stages) : stages[i] = stage_

\* the credential of the request r is missing or malformed, or invalid at
\* the time t
BadCredential(r, t) ==
    \/ Extract(r).err # NoError
    \/ ParseAndVerify(Extract(r).token, jcfg, t).err # ErrNone

\* the entries of the content in the cache: none or one
ContentEntry(c) ==
    IF c.items[ContentKey] = Nil THEN <<>> ELSE <<c.val[c.items[ContentKey]]>>

\* C19: the stages of one request run in the order credential check, target
\* resolution, cache lookup, origin fetch, parse/rewrite, cache store,
\* response; and a request whose credential is missing, malformed or
\* invalid causes no lookup of the content in the cache, no request to the
\* origin and no store: its stages are the credential check and the
\* response alone, and the step that serves it leaves the count of origin
\* requests, the content's entry and the deletes pending for it as they were
C19_PipelineOrder ==
    /\ [](/\ InPipelineOrder(last.trace)
          /\ BadCredential(last.req, last.at) /\ last.trace # <<>>
                => /\ ~Ran(last.trace, StageLookup)
                   /\ ~Ran(last.trace, StageFetch)
                   /\ ~Ran(last.trace, StageStore)
                   /\ last.fetched = 0)
    /\ [][(served' = served + 1 /\ BadCredential(last'.req, last'.at))
             => /\ fetches' = fetches
                /\ ContentEntry(cache') = ContentEntry(cache)
                /\ pendingDel'[ContentKey] = pendingDel[ContentKey]]_vars

\* C19 witness: a request went through every stage and stored its content,
\* and the request after it was turned away for its credential while the
\* content was still in the cache
C19_Witness ==
    /\ prev.trace = Pipeline7
    /\ BadCredential(last.req, last.at)
    /\ last.resp.Code = "token_error"
    /\ last.trace = <<StageCredential, StageResponse>>
    /\ ContentEntry(cache) # <<>>

\* last and prev are two requests with the same valid token for the same
\* target, prev stored its content and last arrived within the TTL prev
\* stored it with
ConsecutivePair ==
    /\ enabled
    /\ prev.resp.Status = StatusOK /\ prev.resp.XCache = "MISS" /\ prev.ttl > 0
    /\ last.req.Path = prev.req.Path /\ last.req.Target = "" /\ prev.req.Target = ""
    /\ ~BadCredential(last.req, last.at)
    /\ Extract(last.req).token = Extract(prev.req).token
    /\ last.at - prev.at <= prev.ttl

\* C20: of two consecutive requests with the same token for the same
\* playlist target, with caching enabled and the second within the TTL of
\* what the first stored, the second is answered X-Cache: HIT with the body
\* of the first, and the origin is asked once, by the first
C20_CredentialReuse ==
    (ConsecutivePair /\ prev.req.Path = PlaylistPath)
        => /\ last.resp.XCache = "HIT"
           /\ last.resp.Body = prev.resp.Body
           /\ prev.fetched + last.fetched = 1

(***************************************************************************)
(* Properties of the Handler's answers to what the origin answers.         *)
(***************************************************************************)
\* C21: a response served from the cache has the Content-Type of the
\* response of the miss that filled the entry.
C21_HitContentType ==
    (/\ last.resp.XCache = "HIT"
     /\ prev.resp.XCache = "MISS" /\ prev.resp.Status = StatusOK)
        => last.resp.ContentType = prev.resp.ContentType

\* C22: a response of the origin with a status of 400 and more is answered
\* with the same status, for a playlist and for any other target.
C22_OriginStatusPropagated ==
    (last.fetched > 0 /\ last.origin.Err = "" /\ last.origin.StatusCode >= 400)
        => last.resp.Status = last.origin.StatusCode

\* C22 witness: the origin answered a request for a segment with 404 after
\* it answered the request before with 500, and both were passed on
C22_Witness ==
    /\ rpath = SegmentPath
    /\ prev.fetched > 0 /\ prev.origin.StatusCode = StatusInternalServerError
    /\ prev.resp.Status = StatusInternalServerError
    /\ last.fetched > 0 /\ last.origin.StatusCode = StatusNotFound
    /\ last.resp.Status = StatusNotFound

\* C23: a refused connection to the origin is answered with 502 and a
\* timeout of the origin's response headers with 504.
C23_TransportErrorsByKind ==
    last.fetched > 0 =>
        /\ last.origin = Unreachable => last.resp.Status = StatusBadGateway
        /\ last.origin = TimedOut => last.resp.Status = StatusGatewayTimeout

\* C24: one request asks the origin again after an error of the transport
\* or a 5xx status until RetryCount more attempts have failed, never after
\* a 4xx status, and so at most 1 + RetryCount times.
C24_RetriesUpToCount ==
    last.fetched > 0 =>
        /\ last.fetched <= 1 + RetryCount
        /\ OriginFailure(last.origin) => last.fetched = 1 + RetryCount
        /\ ~OriginFailure(last.origin) => last.fetched = 1

\* C25: there is a threshold such that a request that comes to the origin
\* fetch right after that many failed requests to the origin in a row, with
\* no time passed, does not ask the origin and is answered with 503.
C25_CircuitOpens ==
    \E threshold \in 1..(MaxServed - 1) :
        (/\ last.before >= threshold
         /\ Ran(last.trace, StageFetch) /\ last.req.Target # RelativeTarget)
            => last.fetched = 0 /\ last.resp.Status = StatusServiceUnavailable

\* the target getTargetURL resolves the request r to is a valid absolute URL
ValidAbsolute(r) ==
    getTargetURL(r, OriginBaseURL).err = ErrNone /\ IsAbs(getTargetURL(r, OriginBaseURL).url)

\* C26: a request whose url query parameter, or else whose path joined with
\* the base URL, is no valid absolute URL is answered with 400 and the
\* origin is not asked.
C26_TargetMustBeAbsolute ==
    (Ran(last.trace, StageTarget) /\ ~ValidAbsolute(last.req))
        => last.resp.Status = StatusBadRequest /\ last.fetched = 0

(***************************************************************************)
(* Properties of the player tracking and of the shutdown.                  *)
(***************************************************************************)
\* C27: no request waits for the tracker: whenever the goroutine of a
\* request stands at the tracker call, no other request holds Tracker.mu,
\* so its next step can be taken.
C27_TrackingNeverBlocks ==
    \A r \in Reqs : rpc[r] = "track" => mu = 0

\* C28: from the signal on the server accepts no connection; main discards
\* the cache only after Shutdown returned with no request in flight; the
\* wait ends with the shutdown timeout, by which the process has exited with
\* status 1 unless the requests were done, and then the cache is not
\* discarded by main.
C28_ShutdownOrder ==
    /\ [](/\ phase # "serving" => ~accepting
          /\ phase \in {"drained", "complete"} => active = 0
          /\ phase = "stopping" => elapsed <= ShutdownTimeout
          /\ exitCode = 1 <=> phase = "exited"
          /\ exitCode = 0 <=> phase = "complete")
    /\ [][/\ (Size > 0 /\ Size' = 0) => (phase = "drained" /\ active = 0 /\ ~accepting)
          /\ phase = "exited" => cache' = cache
          /\ (phase = "stopping" /\ active > 0 /\ elapsed = ShutdownTimeout
               /\ phase' # "stopping") => phase' = "exited"]_vars

\* C28 witness: the shutdown is complete and the cache empty after the
\* server waited for its requests
C28_Witness ==
    phase = "complete" /\ elapsed > 0 /\ Size = 0 /\ ~accepting /\ active = 0

(***************************************************************************)
(* Properties of the parser's pairing of URI lines with tags.              *)
(***************************************************************************)
\* C29: a playlist Parse accepts has variants or segments, never both.
C29_VariantsXorSegments ==
    stage = "parsed" => ~(Len(pl.Master.Variants) > 0 /\ Len(pl.Media.Segments) > 0)

\* the line before line i that is not blank, 0 if there is none
PrevLine(lines, i) ==
    IF \E j \in 1..(i - 1) : lines[j].k # "blank"
    THEN CHOOSE j \in 1..(i - 1) :
             lines[j].k # "blank" /\ \A k \in (j + 1)..(i - 1) : lines[k].k = "blank"
    ELSE 0

\* the URI lines of a text that come right after a tag line of the name
UrisAfter(lines, name) ==
    {i \in 1..Len(lines) :
        /\ lines[i].k = "uri"
        /\ PrevLine(lines, i) > 0
        /\ lines[PrevLine(lines, i)].k = "tag"
        /\ lines[PrevLine(lines, i)].Name = name}

UriLines(lines) == {i \in 1..Len(lines) : lines[i].k = "uri"}

\* C30: Parse accepts a text only if each of its URI lines comes right
\* after a stream-variant tag, and then makes a Variant, or right after an
\* EXTINF tag, and then makes a Segment; a URI line anywhere else (after
\* the header, after another tag, after another URI line) makes Parse fail.
C30_UriNeedsPendingTag ==
    stage = "parsed" =>
        /\ UriLines(body) = UrisAfter(body, TagStreamInf) \cup UrisAfter(body, TagInf)
        /\ Len(pl.Master.Variants) = Cardinality(UrisAfter(body, TagStreamInf))
        /\ Len(pl.Media.Segments) = Cardinality(UrisAfter(body, TagInf))

\* C30 witness: Parse failed on a text whose header and first URI line are
\* in place and whose second URI line comes right after the first
C30_Witness ==
    /\ stage = "failed"
    /\ body[1] = TagLine(TagExtM3U, NoVal)
    /\ \E i \in UriLines(body) :
          /\ PrevLine(body, i) \in UrisAfter(body, TagInf)
          /\ \A j \in UriLines(body) : j < i => j \in UrisAfter(body, TagInf)
          /\ Parse(NewPlaylist, body).err = ErrSegmentURI

(***************************************************************************)
(* Properties of Set, of the sweep, of the routing of keys and of the      *)
(* shards.                                                                 *)
(***************************************************************************)
\* the keys of shard s in the order of its recency list, from the front
RECURSIVE ListKeys(_, _, _, _)
ListKeys(c, s, n, fuel) ==
    IF n \notin Elems \/ fuel = 0 THEN <<>>
    ELSE <<c.val[n].key>> \o ListKeys(c, s, c.nxt[n], fuel - 1)

Recency(c, s) == ListKeys(c, s, c.nxt[Root(s)], MaxElems + 1)

\* what C31 says of a Set(key, value, ttl) from the cache c to the cache d
\* that counted n evictions
SetContract(c, d, key, value, ttl, n) ==
    LET s == getShard(key)
        removed == {k \in Keys : c.items[k] # Nil /\ d.items[k] = Nil}
        old == Recency(c, s)
    IN  IF c.items[key] # Nil
        THEN /\ d.items[key] # Nil
             /\ d.val[d.items[key]] = NewItem(key, value, ttl)
             /\ d.nxt[Root(s)] = d.items[key]
             /\ d.count = c.count
             /\ removed = {}
             /\ n = 0
        ELSE /\ d.count[s] = c.count[s] + 1 - n
             /\ d.count[s] <= maxSize
             /\ n = Cardinality(removed \cup {k \in {key} : d.items[k] = Nil})
             /\ c.count[s] + 1 <= maxSize => n = 0
             /\ d.items[key] # Nil =>
                    /\ d.val[d.items[key]] = NewItem(key, value, ttl)
                    /\ d.nxt[Root(s)] = d.items[key]
             /\ d.items[key] = Nil => maxSize = 0
             \* the entries removed are the last ones of the list
             /\ \A i \in 1..Len(old) :
                    old[i] \in removed => \A j \in i..Len(old) : old[j] \in removed

\* C31: a Set on a key that is present replaces its value and expiry, makes
\* it the most recent entry and leaves the item count as it is; a Set on a
\* new key adds it as the most recent entry, raises the count by one and
\* removes entries from the least recent end until the count is within the
\* shard's capacity, with one eviction counted for each entry removed.
C31_SetContract ==
    [][\A t \in Threads, key \in Keys, value \in LRUValues, ttl \in LRUTTLs :
          LRUSet(t, key, value, ttl) =>
              SetContract(cache, cache', key, value, ttl,
                          SetEvictions(cache, key, value, ttl, NewElem))]_vars

\* the elements of shard s in the order of its recency list, from the back
RECURSIVE ListFromBack(_, _, _, _)
ListFromBack(c, s, n, fuel) ==
    IF n \notin Elems \/ fuel = 0 THEN <<>>
    ELSE <<n>> \o ListFromBack(c, s, c.prv[n], fuel - 1)

FromBack(c, s) == ListFromBack(c, s, c.prv[Root(s)], MaxElems + 1)

\* what C32 says of a sweep of shard s from the cache c to the cache d
SweepContract(c, d, s) ==
    LET removed == {k \in Keys : c.items[k] # Nil /\ d.items[k] = Nil}
        back == FromBack(c, s)
    IN  /\ \A k \in removed : getShard(k) = s /\ isExpired(c.val[c.items[k]])
        /\ \A i \in 1..Len(back) :
               (\E k \in removed : c.items[k] = back[i])
                   => \A j \in 1..i : isExpired(c.val[back[j]])
        /\ \A k \in Keys \ removed : d.items[k] = c.items[k]

\* C32: with the sweep running at any time or never, a Get never returns
\* an entry whose TTL has elapsed, and a sweep of a shard removes only
\* expired entries, those it meets from the least recent end of the list
\* before the first entry that is not expired.
C32_ExpiryWithoutSweep ==
    /\ []((op.name = "Get" /\ op.hit /\ op.snap.st = "live" /\ op.snap.ttl > 0)
              => op.snap.age <= op.snap.ttl)
    /\ [][\A s \in 0..(MaxShards - 1) :
              Sweep(s) => SweepContract(cache, cache', s)]_vars

\* FNV-1 on 32 bits, by the prefixes of the key: the hash of a key is the
\* hash of the key without its last byte, multiplied by the prime and then
\* xored with the last byte
RECURSIVE Fnv1(_)
Fnv1(key) ==
    IF Len(key) = 0 THEN OffsetBasis
    ELSE Xor32(Mul32(Fnv1(SubSeq(key, 1, Len(key) - 1)), Prime32), key[Len(key)])

\* FNV-1a on 32 bits, by the prefixes of the key: the xor with the last byte
\* comes first and the multiplication after
RECURSIVE Fnv1a(_)
Fnv1a(key) ==
    IF Len(key) = 0 THEN OffsetBasis
    ELSE Mul32(Xor32(Fnv1a(SubSeq(key, 1, Len(key) - 1)), key[Len(key)]), Prime32)

\* the smallest power of two that is at least n, for n of 1 and more
RECURSIVE PowerOfTwoFrom(_, _)
PowerOfTwoFrom(n, p) == IF p >= n THEN p ELSE PowerOfTwoFrom(n, 2 * p)

\* the configured shard count, with the default NewMemoryWithOptions takes
\* for a count of zero
ConfiguredShards == IF shardCount <= 0 THEN DefaultShardSize ELSE shardCount

\* C33 as stated: the shard index of a key is FNV-1a-32 of its bytes mod N,
\* N being the smallest power of two that is at least the configured shard
\* count, and a key has one shard index only.
C33_ShardRoutingFNV1a ==
    /\ \A x \in routed :
           x[2] = Fnv1a(x[1])[2] % PowerOfTwoFrom(ConfiguredShards, 1)
    /\ \A x, y \in routed : x[1] = y[1] => x[2] = y[2]

\* C33 amended: the shard index of a key is FNV-1-32 of its bytes (multiply,
\* then xor) mod N, N being the smallest power of two that is at least the
\* configured shard count, and a key has one shard index only.
C33_ShardRouting ==
    /\ \A x \in routed :
           x[2] = Fnv1(x[1])[2] % PowerOfTwoFrom(ConfiguredShards, 1)
    /\ \A x, y \in routed : x[1] = y[1] => x[2] = y[2]

\* C33 witness: with three shards configured, four are made and "a" goes to
\* the third of them, "ab" to the first
C33_Witness ==
    /\ shardCount = 3
    /\ <<<<97>>, 2>> \in routed
    /\ <<<<97, 98>>, 0>> \in routed

\* the entry under a key is there and its TTL has not elapsed
Unexpired(c, key) == c.items[key] # Nil /\ ~isExpired(c.val[c.items[key]])

\* C34: the delete that a Get of an expired entry starts in the background
\* removes only that expired entry: when it runs and finds under the key an
\* entry whose TTL has not elapsed (a Set came in between), the entry stays
\* as it is.
C34_BackgroundDeleteKeepsFresh ==
    [][\A key \in Keys :
         (DeleteExpired(key) /\ Unexpired(cache, key)) =>
             /\ cache'.items[key] = cache.items[key]
             /\ cache'.val[cache.items[key]] = cache.val[cache.items[key]]]_vars

\* the keys the map of shard s holds
ItemKeys(c, s) == {k \in Keys : getShard(k) = s /\ c.items[k] # Nil}

\* the elements linked into the list of shard s
Linked(c, s) == {FromBack(c, s)[i] : i \in 1..Len(FromBack(c, s))}

\* C35: between the critical sections of its operations the map of a shard
\* and its list hold the same entries and itemCount is the number of both;
\* so the MoveToFront of a Get that found its entry before a Clear does not
\* link that entry into the list again.
C35_ShardStructure ==
    \A s \in Shards :
        /\ Linked(cache, s) = {cache.items[k] : k \in ItemKeys(cache, s)}
        /\ \A k \in ItemKeys(cache, s) : cache.val[cache.items[k]].key = k
        /\ Len(FromBack(cache, s)) = Cardinality(ItemKeys(cache, s))
        /\ cache.count[s] = Cardinality(ItemKeys(cache, s))

\* the state of the lifecycle of the server
LifeState == IF ~started THEN "NotStarted"
             ELSE IF ~stopped THEN "Started" ELSE "Stopped"

\* the steps the lifecycle allows
LifeStep ==
    \/ LifeState' = LifeState
    \/ LifeState = "NotStarted" /\ LifeState' = "Started"
    \/ LifeState = "Started" /\ LifeState' = "Stopped"

\* C39: the server goes from NotStarted to Started to Stopped and no other
\* way; a Start of a started server, a Stop of a server not started and a
\* Stop of a stopped server fail; and Stop never goes on to the shutdown
\* before Start has made the http.Server.
C39_Lifecycle ==
    /\ [][LifeStep]_vars
    /\ [][\A g \in Goroutines :
             /\ (StartLock(g) /\ started) => lres'[g] = ErrAlreadyStarted
             /\ (StopLock(g) /\ ~started) => lres'[g] = ErrNotStarted
             /\ (StopLock(g) /\ stopped) => lres'[g] = ErrAlreadyStopped]_vars
    /\ [](shutdownOn # "nil")

\* C37: the target resolution of the request for a rewritten variant URI
\* gives the URL that resolving the variant URI against the playlist's
\* target gives, with the target appended to the path and with the target
\* in the url parameter.
C37_RoundTrip ==
    trip.phase = "resolved" =>
        /\ trip.err = ErrNone
        /\ trip.target = resolveURL(trip.base, trip.uri).url

\* the request l was sent on to the origin and answered with an error: the
\* fetch failed, the origin's status was 400 or more, the body could not be
\* read, or the playlist could not be parsed or rewritten
FailedFetch(l) ==
    /\ \E i \in 1..Len(l.trace) : l.trace[i] = StageFetch
    /\ l.resp.Status >= 400

\* C38: a request that fails at the origin fetch or after it puts no entry
\* into the cache: after it a lookup of its content key misses, and the same
\* request made again is not answered from the cache.
C38_OnlySuccessCached ==
    /\ FailedFetch(last) => ~Lookup(ContentKey).hit
    /\ (FailedFetch(prev) /\ last.req = prev.req) => last.resp.XCache # "HIT"

\* C38 witness: with the cache enabled a request failed on a body that could
\* not be read, and the same request right after it went to the origin again
C38_Witness ==
    /\ enabled
    /\ FailedFetch(prev) /\ prev.origin.ReadErr
    /\ last.req = prev.req /\ last.at = prev.at
    /\ last.fetched = 1 /\ last.resp.XCache = "MISS"

\* the values of the token parameter in the URIs of a text
Credentials(lines) ==
    LET uris == LineURIs(lines) \cup UNION {AttrURIs(lines[i]) : i \in
                                              {j \in 1..Len(lines) : lines[j].k = "tag"}}
    IN  UNION {{u.Query[i][2] : i \in
                   {j \in 1..Len(u.Query) : u.Query[j][1] = Options.TokenParamName}} :
               u \in uris}

\* C36: the body answered to a request with the token T has no other
\* credential in it than T, and it is the body the request gets when every
\* other request to the Handler had carried T as well.
C36_NoCredentialCrosses ==
    served > 0 =>
        /\ resp.err = ErrNone => Credentials(resp.text) \subseteq {rtoken}
        /\ resp.err = alone[rtoken].err
        /\ resp.text = alone[rtoken].text

====
